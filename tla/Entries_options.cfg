SPECIFICATION Spec
CONSTANTS
  e1 = e1
  e2 = e2
  f1 = f1
  f2 = f2
  a1 = a1
  a2 = a2
  a3 = a3
  b1 = b1
  t1 = t1
  t2 = t2
  t3 = t3
  t4 = t4
  t5 = t5
  t6 = t6
  t7 = t7
  x = x
  caA = caA
  caB = caB
  crtA = crtA
  crtB = crtB
  keyA = keyA
  keyB = keyB
  ed25519A = ed25519A
  Entry <- TwoEntries
  Flow <- TwoFlows
  Config <- Configs
  SafeLoad <- YamlOf
  ContextName <- Names
  Endpoint <- Endpoints
  Bytes <- AllBytes
  Certificate <- Certificates
  Authority <- Authorities
  KeyOf <- KeyOfCertificate
  Relabelled <- Label
  Frontend = TRUE
SYMMETRY Interchangeable
INVARIANTS
  OptionsInUse
