----------------------------- MODULE MCEntries ------------------------------
(* A small instance of Entries: two clusters and one endpoint.  Of cluster A  *)
(* there is a talosconfig, a later one with no endpoints whose only context   *)
(* is not named, and one with another cluster's key; of cluster B there is    *)
(* one with a context of cluster A beside its own.  The others do not parse.  *)
EXTENDS Entries, TLC

CONSTANTS e1, e2, f1, f2, a1, a2, a3, b1, t1, t2, t3, t4, t5, t6, t7, x,
          caA, caB, crtA, crtB, keyA, keyB, ed25519A

TwoEntries == {e1, e2}
TwoFlows == {f1, f2}
Names == {"prod", "lab"}
Endpoints == {x}
AllBytes == {caA, caB, crtA, crtB, keyA, keyB, ed25519A}
Certificates == {crtA, crtB}
Authorities == {caA, caB}
KeyOfCertificate == (crtA :> keyA) @@ (crtB :> keyB)
Label == (ed25519A :> keyA)

In(endpoints, ca, crt, key) ==
  [mapping |-> TRUE, list |-> TRUE, endpoints |-> endpoints,
   ca |-> ca, crt |-> crt, key |-> key]
A == In(<<x>>, caA, crtA, ed25519A)
B == In(<<x>>, caB, crtB, keyB)
Of(contexts, name) == [contexts |-> contexts, context |-> name]

Configs == {a1, a2, a3, b1, t1, t2, t3, t4, t5, t6, t7}
YamlOf ==
  (a1 :> Of([prod |-> A], "prod")) @@
  (a2 :> Of([prod |-> [A EXCEPT !.endpoints = <<>>]], NoName)) @@
  (a3 :> Of([prod |-> [A EXCEPT !.key = keyB]], "prod")) @@
  (b1 :> Of([prod |-> A, lab |-> B], "lab")) @@
  (t1 :> Of([prod |-> A, lab |-> B], NoName)) @@
  (t2 :> Of([prod |-> [A EXCEPT !.mapping = FALSE]], "prod")) @@
  (t3 :> Of([prod |-> [A EXCEPT !.list = FALSE]], "prod")) @@
  (t4 :> Of([prod |-> [A EXCEPT !.crt = caA]], "prod")) @@
  (t5 :> Of([prod |-> [A EXCEPT !.ca = NoField]], "prod")) @@
  (t6 :> Of([prod |-> [A EXCEPT !.key = Garbage]], "prod")) @@
  (t7 :> Of(<<>>, "prod"))
Interchangeable == Permutations(TwoEntries) \cup Permutations(TwoFlows)
=============================================================================
