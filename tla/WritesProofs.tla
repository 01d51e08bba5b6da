---------------------------- MODULE WritesProofs ----------------------------
(* Proof that the services, the buttons and the update entities together      *)
(* implement WritePolicy, for any nodes, schematics and number of calls, and   *)
(* that every installer image is one of the shown data.                       *)
EXTENDS Writes, TLAPS

\* What the variables of the policy need of Writes' types.
CallsTyped == call \in [Call -> Calls \cup {NoCall}]

\* Outside "none", a call's operation is one of the policy's.
LEMMA OpsDiffer ==
  /\ \A r \in Calls : r.op \in Ops /\ r.op # "none"
  /\ NoCall.op = "none"
BY DEF Calls, Ops, NoCall

\* A write slot is free for the policy exactly when no call is under way.
LEMMA FreeSlot ==
  ASSUME CallsTyped, NEW c \in Call
  PROVE  call[c].op = "none" <=> call[c] = NoCall
BY OpsDiffer DEF CallsTyped

\* The ways to ask for something.
Asked(c, n) ==
  \/ ServiceStatus(c, n)
  \/ ServiceReboot(c, n)
  \/ ServiceUpgrade(c, n)
  \/ ServiceReset(c, n)
  \/ PressButton(c, n)
  \/ Install(c, n)

\* Each fills a free slot, and was permitted.
LEMMA SendPermitted ==
  ASSUME NEW c \in Call, NEW n \in Node,
         Asked(c, n)
  PROVE  \E op \in Ops, image \in Schematic \cup {NoImage} :
           /\ Sent(c, op, n, image)
           /\ Policy!Permitted(op)
           /\ entry # "closed"
<1> USE DEF Ops, Policy!Permitted, CanWrite, CanReset
<1>0. CASE ServiceStatus(c, n)
  BY <1>0 DEF ServiceStatus, ServiceResolves
<1>1. CASE ServiceReboot(c, n)
  BY <1>1 DEF ServiceReboot, ServiceResolves, RequireDestructive
<1>2. CASE ServiceUpgrade(c, n)
  BY <1>2 DEF ServiceUpgrade, ServiceResolves, RequireDestructive, HasSchematic
<1>3. CASE ServiceReset(c, n)
  BY <1>3 DEF ServiceReset, ServiceResolves, RequireReset
<1>4. CASE PressButton(c, n)
  BY <1>4 DEF PressButton, NodeAvailable, ClusterAvailable, EntitiesExist, EntityGate
<1>5. CASE Install(c, n)
  BY <1>5 DEF Install, NodeAvailable, ClusterAvailable, EntitiesExist,
              EntityGate, HasSchematic
<1> QED
  BY <1>0, <1>1, <1>2, <1>3, <1>4, <1>5 DEF Asked

\* The refresh begins and ends.
Refreshing ==
  \/ BeginRefresh
  \/ ServiceRefresh
  \/ PressRefresh
  \/ RefreshFails
  \/ Publish

\* A call under way keeps its shape.
LEMMA CallsTypedStep == CallsTyped /\ [Next]_vars => CallsTyped'
<1> SUFFICES ASSUME CallsTyped, [Next]_vars PROVE CallsTyped'
  OBVIOUS
<1> USE DEF CallsTyped
<1>1. ASSUME NEW c \in Call, NEW n \in Node,
             Asked(c, n)
      PROVE  CallsTyped'
  <2>1. PICK op \in Ops, image \in Schematic \cup {NoImage} :
               Sent(c, op, n, image)
    BY <1>1, SendPermitted
  <2> DEFINE r == [op |-> op, node |-> n, image |-> image,
                   acted |-> FALSE, alive |-> TRUE,
                   fresh |-> image = NoImage \/ image \in hadSince[n]]
  <2>2. r \in Calls
    BY DEF Calls
  <2>3. call' = [call EXCEPT ![c] = r]
    BY <2>1 DEF Sent
  <2> HIDE DEF r
  <2> QED
    BY <2>2, <2>3
<1>2. ASSUME NEW c \in Call, NodeActs(c) PROVE CallsTyped'
  <2>1. call[c] \in Calls
    BY <1>2 DEF NodeActs
  <2>2. [call[c] EXCEPT !.acted = TRUE] \in Calls
    BY <2>1 DEF Calls
  <2>3. call' = [call EXCEPT ![c] = [call[c] EXCEPT !.acted = TRUE]]
    BY <1>2 DEF NodeActs
  <2> QED
    BY <2>2, <2>3
<1>3. ASSUME NEW c \in Call, Answered(c) \/ CallFails(c) PROVE CallsTyped'
  BY <1>3 DEF Answered, CallFails
<1>4. CASE Close
  <2>1. \A c \in Call : call[c] # NoCall =>
          [call[c] EXCEPT !.alive = FALSE] \in Calls
    BY DEF Calls
  <2> QED
    BY <1>4, <2>1 DEF Close
<1>5. CASE \/ \E n \in Node : Reimage(n) \/ PollNode(n)
           \/ Refreshing \/ SetOptions \/ BeginUnload \/ Setup
           \/ UNCHANGED vars
  BY <1>5 DEF Reimage, PollNode, Refreshing, BeginRefresh, ServiceRefresh,
              PressRefresh, RefreshFails, Publish, SetOptions, BeginUnload,
              Setup, vars
<1> QED
  BY <1>1, <1>2, <1>3, <1>4, <1>5 DEF Next, Asked, Refreshing

\* The initial states are the policy's.
LEMMA InitPolicy == Init => CallsTyped /\ Policy!Init
BY OpsDiffer
DEF Init, CallsTyped, Policy!Init, Policy!Options, Policy!Roles, Policy!None,
    Options, Roles

\* Every step is a step of the policy or leaves its variables alone.
LEMMA StepPolicy == CallsTyped /\ [Next]_vars => [Policy!Next]_(Policy!vars)
<1> SUFFICES ASSUME CallsTyped, [Next]_vars
             PROVE  Policy!Next \/ UNCHANGED Policy!vars
  OBVIOUS
<1> DEFINE writes == [c \in Call |-> call[c].op]
<1>0. CallsTyped'
  BY CallsTypedStep
<1>1. ASSUME NEW c \in Call, NEW n \in Node,
             Asked(c, n)
      PROVE  Policy!Next
  <2>1. PICK op \in Ops, image \in Schematic \cup {NoImage} :
           /\ Sent(c, op, n, image)
           /\ Policy!Permitted(op)
           /\ entry # "closed"
    BY <1>1, SendPermitted
  <2>2. writes[c] = "none"
    BY <2>1, FreeSlot DEF Sent
  <2>3. \A d \in Call : call'[d].op = IF d = c THEN op ELSE call[d].op
    BY <2>1 DEF Sent, CallsTyped
  <2>4. writes' = [writes EXCEPT ![c] = op]
    BY <2>3
  <2>5. Policy!Send(c, op)
    BY <2>1, <2>2, <2>4 DEF Policy!Send, Policy!None, Sent
  <2> QED
    BY <2>5 DEF Policy!Next, Policy!Ops, Ops
<1>2. ASSUME NEW c \in Call, NodeActs(c) PROVE UNCHANGED Policy!vars
  <2>1. \A d \in Call : call'[d].op = call[d].op
    BY <1>2 DEF NodeActs, CallsTyped, Calls
  <2> QED
    BY <1>2, <2>1 DEF NodeActs, Policy!vars
<1>3. ASSUME NEW c \in Call, Answered(c) \/ CallFails(c) PROVE Policy!Next
  <2>1. \A d \in Call : call'[d].op = IF d = c THEN "none" ELSE call[d].op
    BY <1>3, OpsDiffer DEF Answered, CallFails, CallsTyped
  <2>2. writes' = [writes EXCEPT ![c] = "none"]
    BY <2>1
  <2>3. Policy!End(c)
    BY <1>3, <2>2 DEF Policy!End, Policy!None, Answered, CallFails
  <2> QED
    BY <2>3 DEF Policy!Next
<1>4. CASE Close
  <2>1. \A d \in Call : call'[d].op = call[d].op
    BY <1>4 DEF Close, CallsTyped, Calls
  <2>2. writes' = writes
    BY <2>1
  <2> QED
    BY <1>4, <2>2 DEF Close, Policy!Next, Policy!Disconnect
<1>5. CASE Setup
  BY <1>5 DEF Setup, Policy!Next, Policy!Connect, Policy!Roles, Roles
<1>6. CASE SetOptions
  BY <1>6 DEF SetOptions, Policy!Next, Policy!SetOptions, Policy!Options,
              Options, viewVars
<1>7. CASE BeginUnload
  BY <1>7 DEF BeginUnload, Policy!vars
<1>8. CASE \/ \E n \in Node : Reimage(n) \/ PollNode(n)
           \/ Refreshing \/ UNCHANGED vars
  BY <1>8 DEF Reimage, PollNode, Refreshing, BeginRefresh, ServiceRefresh,
              PressRefresh, RefreshFails, Publish, vars, Policy!vars
<1> QED
  BY <1>1, <1>2, <1>3, <1>4, <1>5, <1>6, <1>7, <1>8 DEF Next, Asked, Refreshing

\* services.py:90-129, button.py:92-101, update.py:58-62, 83-103: every write
\* that is sent was permitted by the options and the role at that moment and
\* went over an open connection.
THEOREM WritesKeepPolicy == Spec => KeepsPolicy
<1>1. Spec => []CallsTyped
  BY InitPolicy, CallsTypedStep, PTL DEF Spec
<1> QED
  BY <1>1, InitPolicy, StepPolicy, PTL DEF Spec, KeepsPolicy, Policy!Spec

-----------------------------------------------------------------------------
(* Installer images.  A schematic reaches seen only through polled, so both   *)
(* have to be tied to the history of what the node ran.                       *)

\* What is read or shown of a node is what it ran in the window of that
\* reading, and what it runs now is in every window.
ReadingsJustified ==
  \A n \in Node :
    /\ actual[n] \in hadNow[n] /\ actual[n] \in hadSince[n]
    /\ HasSchematic(n) => seen[n] \in hadSince[n]
    /\ polled[n] \in Schematic => polled[n] \in hadNow[n]

ReadingsTyped ==
  /\ actual \in [Node -> Schematic]
  /\ hadNow \in [Node -> SUBSET Schematic]
  /\ hadSince \in [Node -> SUBSET Schematic]
  /\ polled \in [Node -> Schematic \cup {Unknown, Absent, Pending}]
  /\ seen \in [Node -> Schematic \cup {Unknown, Absent, Pending}]

\* No upgrade is sent without a schematic.
UpgradeHasImage ==
  \A c \in Call : call[c].op = "upgrade" => call[c].image \in Schematic

ImageInv ==
  /\ CallsTyped
  /\ UpgradeHasImage
  /\ ReadingsTyped
  /\ ReadingsJustified
  /\ ImageIsFromShownRefresh

LEMMA ImageInit == Init => ImageInv
BY SchematicAssumption
DEF Init, ImageInv, CallsTyped, UpgradeHasImage, ReadingsTyped,
    ReadingsJustified, ImageIsFromShownRefresh, HasSchematic, NoCall

\* A call's operation cannot be that of no call.
LEMMA NoCallApart == NoCall \notin Calls
BY OpsDiffer

\* Only NodeActs and Reimage change what a node runs; both widen the windows.
LEMMA ReimageReadings ==
  ASSUME ReadingsTyped, ReadingsJustified, NEW n \in Node, NEW s \in Schematic,
         Reimaged(n, s), UNCHANGED <<seen, polled>>
  PROVE  (ReadingsTyped /\ ReadingsJustified)'
BY DEF ReadingsTyped, ReadingsJustified, Reimaged, HasSchematic

LEMMA RequestReadings ==
  ASSUME ReadingsTyped, ReadingsJustified, Request,
         UNCHANGED <<seen, actual, hadSince>>
  PROVE  (ReadingsTyped /\ ReadingsJustified)'
BY SchematicAssumption
DEF ReadingsTyped, ReadingsJustified, Request, HasSchematic

LEMMA ImageStep == ImageInv /\ [Next]_vars => ImageInv'
<1> SUFFICES ASSUME ImageInv, [Next]_vars PROVE ImageInv'
  OBVIOUS
<1>0. CallsTyped'
  BY CallsTypedStep DEF ImageInv
<1> USE DEF ImageInv, UpgradeHasImage
<1>1. ASSUME NEW c \in Call, NEW n \in Node,
             Asked(c, n)
      PROVE  ImageInv'
  <2>1. PICK op \in Ops :
          \/ op # "upgrade" /\ Sent(c, op, n, NoImage)
          \/ HasSchematic(n) /\ Sent(c, op, n, seen[n])
    <3> USE DEF Ops
    <3>0. CASE ServiceStatus(c, n)
      BY <3>0 DEF ServiceStatus
    <3>1. CASE ServiceReboot(c, n)
      BY <3>1 DEF ServiceReboot
    <3>2. CASE ServiceUpgrade(c, n)
      BY <3>2 DEF ServiceUpgrade
    <3>3. CASE ServiceReset(c, n)
      BY <3>3 DEF ServiceReset
    <3>4. CASE PressButton(c, n)
      BY <3>4 DEF PressButton
    <3>5. CASE Install(c, n)
      BY <3>5 DEF Install
    <3> QED
      BY <1>1, <3>0, <3>1, <3>2, <3>3, <3>4, <3>5 DEF Asked
  <2>2. (ReadingsTyped /\ ReadingsJustified)'
    BY <2>1 DEF Sent, viewVars, ReadingsTyped, ReadingsJustified, HasSchematic
  <2>3. call'[c].fresh
    <3>1. CASE Sent(c, op, n, NoImage)
      <4>1. call'[c].fresh = (NoImage = NoImage \/ NoImage \in hadSince[n])
        BY <3>1 DEF Sent, CallsTyped
      <4> QED
        BY <4>1
    <3>2. CASE HasSchematic(n) /\ Sent(c, op, n, seen[n])
      <4>1. call'[c].fresh = (seen[n] = NoImage \/ seen[n] \in hadSince[n])
        BY <3>2 DEF Sent, CallsTyped
      <4> QED
        BY <3>2, <4>1 DEF ReadingsJustified
    <3> QED
      BY <2>1, <3>1, <3>2
  <2>4. call'[c].op = "upgrade" => call'[c].image \in Schematic
    BY <2>1 DEF Sent, CallsTyped, HasSchematic
  <2>5. \A d \in Call \ {c} : call'[d] = call[d]
    BY <2>1 DEF Sent, CallsTyped
  <2> QED
    BY <1>0, <2>2, <2>3, <2>4, <2>5 DEF ImageIsFromShownRefresh
<1>2. ASSUME NEW c \in Call, NodeActs(c) PROVE ImageInv'
  <2>1. (ReadingsTyped /\ ReadingsJustified)'
    <3>1. CASE call[c].op = "upgrade"
      <4>1. call[c].node \in Node /\ call[c].image \in Schematic
        BY <1>2, <3>1 DEF NodeActs, CallsTyped, Calls
      <4>2. Reimaged(call[c].node, call[c].image) /\ UNCHANGED <<seen, polled>>
        BY <1>2, <3>1 DEF NodeActs
      <4> QED
        BY <4>1, <4>2, ReimageReadings
    <3>2. CASE ~(call[c].op = "upgrade")
      BY <1>2, <3>2
      DEF NodeActs, ReadingsTyped, ReadingsJustified, HasSchematic
    <3> QED
      BY <3>1, <3>2
  <2> QED
    BY <1>0, <1>2, <2>1 DEF NodeActs, ImageIsFromShownRefresh, CallsTyped, Calls
<1>3. ASSUME NEW c \in Call, Answered(c) PROVE ImageInv'
  <2>1. (ReadingsTyped /\ ReadingsJustified)'
    <3>1. CASE Request
      BY <1>3, <3>1, RequestReadings DEF Answered
    <3>2. CASE UNCHANGED <<refresh, polled, hadNow>>
      BY <1>3, <3>2
      DEF Answered, ReadingsTyped, ReadingsJustified, HasSchematic
    <3> QED
      BY <1>3, <3>1, <3>2 DEF Answered
  <2> QED
    BY <1>0, <1>3, <2>1 DEF Answered, ImageIsFromShownRefresh, CallsTyped, NoCall
<1>4. ASSUME NEW c \in Call, CallFails(c) PROVE ImageInv'
  BY <1>0, <1>4 DEF CallFails, NoCall, viewVars, ImageIsFromShownRefresh, CallsTyped,
     ReadingsTyped, ReadingsJustified, HasSchematic
<1>5. ASSUME NEW n \in Node, Reimage(n) PROVE ImageInv'
  <2>1. PICK s \in Schematic \ {actual[n]} : Reimaged(n, s)
    BY <1>5 DEF Reimage
  <2>2. (ReadingsTyped /\ ReadingsJustified)'
    BY <1>5, <2>1, ReimageReadings DEF Reimage
  <2> QED
    BY <1>0, <1>5, <2>2 DEF Reimage, ImageIsFromShownRefresh
<1>6. ASSUME NEW n \in Node, PollNode(n) PROVE ImageInv'
  BY <1>0, <1>6, SchematicAssumption
  DEF PollNode, Readings, ImageIsFromShownRefresh, ReadingsTyped, ReadingsJustified,
      HasSchematic
<1>7. CASE BeginRefresh \/ ServiceRefresh \/ PressRefresh
  <2>1. /\ Request
        /\ UNCHANGED <<seen, call, actual, hadSince>>
    BY <1>7 DEF BeginRefresh, ServiceRefresh, PressRefresh
  <2>2. (ReadingsTyped /\ ReadingsJustified)'
    BY <2>1, RequestReadings
  <2> QED
    BY <1>0, <2>1, <2>2 DEF ImageIsFromShownRefresh
<1>8. CASE Publish
  BY <1>0, <1>8, SchematicAssumption
  DEF Publish, NewView, ImageIsFromShownRefresh, ReadingsTyped,
      ReadingsJustified, HasSchematic
<1>9. CASE Close
  BY <1>0, <1>9, SchematicAssumption
  DEF Close, ImageIsFromShownRefresh, CallsTyped, Calls, ReadingsTyped,
      ReadingsJustified, HasSchematic
<1>10. CASE Setup
  BY <1>0, <1>10, SchematicAssumption
  DEF Setup, Readings, ImageIsFromShownRefresh, ReadingsTyped, ReadingsJustified,
      HasSchematic
<1>11. CASE SetOptions \/ BeginUnload \/ UNCHANGED vars
  BY <1>0, <1>11
  DEF SetOptions, BeginUnload, vars, viewVars, ImageIsFromShownRefresh,
      ReadingsTyped, ReadingsJustified, HasSchematic
<1>12. CASE RefreshFails
  BY <1>0, <1>12, SchematicAssumption
  DEF RefreshFails, ImageIsFromShownRefresh, ReadingsTyped, ReadingsJustified,
      HasSchematic
<1> QED
  BY <1>1, <1>2, <1>3, <1>4, <1>5, <1>6, <1>7, <1>8, <1>9, <1>10, <1>11, <1>12
  DEF Next, Asked

\* services.py:173-181, update.py:83-103, coordinator.py:261-265: an upgrade is
\* sent only for a schematic the node had since the shown refresh began.
THEOREM ImageIsFromShownRefreshHolds == Spec => []ImageIsFromShownRefresh
<1>1. Spec => []ImageInv
  BY ImageInit, ImageStep, PTL DEF Spec
<1> QED
  BY <1>1, PTL DEF ImageInv

-----------------------------------------------------------------------------
(* Types.  What is read and what is sent has its type by the invariant above; *)
(* what is shown has it because nothing is published before every node has    *)
(* been polled.                                                               *)

LEMMA TypeInit == Init => TypeOK
<1> SUFFICES ASSUME Init PROVE TypeOK
  OBVIOUS
<1>1. /\ seen \in [Node -> Schematic \cup {Unknown, Absent}]
      /\ polled \in [Node -> Schematic \cup {Unknown, Absent, Pending}]
      /\ hadSince \in [Node -> SUBSET Schematic]
      /\ hadNow \in [Node -> SUBSET Schematic]
  BY DEF Init
<1>2. call \in [Call -> Calls \cup {NoCall}]
  BY DEF Init
<1>3. installable \in BOOLEAN /\ success \in BOOLEAN /\ refresh \in BOOLEAN
  BY DEF Init
<1> QED
  BY <1>1, <1>2, <1>3 DEF Init, TypeOK

LEMMA TypeStep == ImageInv /\ ImageInv' /\ TypeOK /\ [Next]_vars => TypeOK'
<1> SUFFICES ASSUME ImageInv, ImageInv', TypeOK, [Next]_vars PROVE TypeOK'
  OBVIOUS
<1>1. /\ call' \in [Call -> Calls \cup {NoCall}]
      /\ actual' \in [Node -> Schematic]
      /\ hadNow' \in [Node -> SUBSET Schematic]
      /\ hadSince' \in [Node -> SUBSET Schematic]
      /\ polled' \in [Node -> Schematic \cup {Unknown, Absent, Pending}]
  BY DEF ImageInv, CallsTyped, ReadingsTyped
<1> SUFFICES /\ options' \subseteq Options
             /\ role' \in Roles
             /\ entry' \in {"loaded", "unloading", "closed"}
             /\ installable' \in BOOLEAN
             /\ seen' \in [Node -> Schematic \cup {Unknown, Absent}]
             /\ success' \in BOOLEAN
             /\ refresh' \in BOOLEAN
  BY <1>1 DEF TypeOK
<1> USE DEF TypeOK
<1>2. ASSUME NEW c \in Call, NEW n \in Node, Asked(c, n)
      PROVE  UNCHANGED <<options, role, entry, installable, seen, success, refresh>>
  <2>1. PICK op \in Ops, image \in Schematic \cup {NoImage} : Sent(c, op, n, image)
    BY <1>2, SendPermitted
  <2> QED
    BY <2>1 DEF Sent, viewVars
<1>3. ASSUME NEW c \in Call, NodeActs(c) \/ CallFails(c)
      PROVE  UNCHANGED <<options, role, entry, installable, seen, success, refresh>>
  BY <1>3 DEF NodeActs, CallFails, viewVars
<1>4. ASSUME NEW n \in Node, Reimage(n) \/ PollNode(n)
      PROVE  UNCHANGED <<options, role, entry, installable, seen, success, refresh>>
  BY <1>4 DEF Reimage, PollNode
<1>5. CASE (\E c \in Call : Answered(c)) \/ BeginRefresh \/ ServiceRefresh
             \/ PressRefresh
  BY <1>5 DEF Answered, BeginRefresh, ServiceRefresh, PressRefresh, Request
<1>6. CASE RefreshFails
  BY <1>6 DEF RefreshFails
<1>7. CASE Publish
  <2>1. \A n \in Node : polled[n] \in Schematic \cup {Unknown, Absent}
    BY <1>7 DEF Publish, AllPolled
  <2> QED
    BY <1>7, <2>1 DEF Publish, NewView
<1>8. CASE SetOptions \/ BeginUnload \/ UNCHANGED vars
  BY <1>8 DEF SetOptions, BeginUnload, viewVars, vars
<1>9. CASE Close
  BY <1>9 DEF Close
<1>10. CASE Setup
  BY <1>10 DEF Setup
<1> QED
  BY <1>2, <1>3, <1>4, <1>5, <1>6, <1>7, <1>8, <1>9, <1>10 DEF Next, Asked

\* services.py, update.py, coordinator.py: every variable keeps its type; in
\* particular no node is shown that the refresh has not polled.
THEOREM TypeCorrect == Spec => []TypeOK
<1>1. Spec => []ImageInv
  BY ImageInit, ImageStep, PTL DEF Spec
<1> QED
  BY <1>1, TypeInit, TypeStep, PTL DEF Spec
=============================================================================
