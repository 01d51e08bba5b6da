---------------------------- MODULE Talosconfig -----------------------------
(* From the text a user pastes to credentials and a TLS context:              *)
(* parse_talosconfig, credentials_from_fields and _build_ssl_context.  What   *)
(* the YAML parser makes of a text, the base64 decoder of a field and OpenSSL *)
(* of bytes is given.                                                         *)
EXTENDS FiniteSets, Sequences

CONSTANTS
  Config,       \* the texts a user can paste
  SafeLoad,     \* yaml.safe_load of each
  ContextName,  \* names of contexts
  Endpoint,     \* addresses of endpoints
  Bytes,        \* what a field of a context can decode to
  Certificate,  \* those that are one certificate in PEM
  Authority,    \* those that OpenSSL loads as authorities to verify with
  KeyOf,        \* the key that belongs to a certificate, labelled as OpenSSL
                \* wants it
  Relabelled    \* the keys that have Talos's label, and the same bytes under
                \* that of OpenSSL

NoName == "no name"
NoField == "no field"        \* missing, empty or no string
Garbage == "not base64"

Field == Bytes \cup {NoField, Garbage}

\* One context of a talosconfig.  mapping: it is one; list: its endpoints are
\* one, which is <<>> where there are none.
Context == [mapping : BOOLEAN, list : BOOLEAN, endpoints : Seq(Endpoint),
            ca : Field, crt : Field, key : Field]

\* A text that is no YAML, or none with a mapping of contexts, has none.
IsLoaded(yaml) ==
  /\ DOMAIN yaml.contexts \subseteq ContextName
  /\ \A n \in DOMAIN yaml.contexts : yaml.contexts[n] \in Context
  /\ yaml.context \in ContextName \cup {NoName}

ASSUME TextAssumption == \A c \in Config : IsLoaded(SafeLoad[c])
ASSUME BytesAssumption ==
  /\ Certificate \subseteq Bytes
  /\ Authority \subseteq Bytes
  /\ KeyOf \in [Certificate -> Bytes]
  /\ DOMAIN Relabelled \subseteq Bytes
  /\ \A b \in DOMAIN Relabelled : Relabelled[b] \in Bytes
  /\ Bytes \cap {NoField, Garbage} = {}
  /\ NoName \notin ContextName

-----------------------------------------------------------------------------
\* The context to use: the one that is named, or else the only one.
ActiveNames(yaml) ==
  LET names == DOMAIN yaml.contexts
  IN IF yaml.context \in names THEN {yaml.context}
     ELSE {n \in names : names = {n}}

Active(yaml) == yaml.contexts[CHOOSE n \in ActiveNames(yaml) : TRUE]

\* _normalize_key_pem
NormalizedKey(pem) ==
  IF pem \in DOMAIN Relabelled THEN Relabelled[pem] ELSE pem

\* credentials_from_fields: every field decodes, but only the certificate is
\* looked into.
Decodes(context) ==
  /\ context.crt \in Certificate
  /\ context.ca \in Bytes
  /\ context.key \in Bytes

\* parse_talosconfig returns; otherwise it raises TalosConfigError.
Parses(yaml) ==
  /\ ActiveNames(yaml) # {}
  /\ Active(yaml).mapping
  /\ Active(yaml).list
  /\ Decodes(Active(yaml))

Valid == {c \in Config : Parses(SafeLoad[c])}

\* What it returns, the roles and the expiry of the certificate left out.
Credentials(context) ==
  [endpoints |-> context.endpoints, ca |-> context.ca, crt |-> context.crt,
   key |-> NormalizedKey(context.key)]

Parsed == [c \in Valid |-> Credentials(Active(SafeLoad[c]))]

\* _build_ssl_context loads the authorities, then the certificate and its key;
\* it is the first to look at the other two.
BuildsSslContext(creds) ==
  /\ creds.ca \in Authority
  /\ creds.key = KeyOf[creds.crt]

Connectable == {c \in Valid : BuildsSslContext(Parsed[c])}
=============================================================================
