SPECIFICATION Spec
CONSTANTS
  kiro1 = kiro1  google1 = google1
  aws = aws  gcp = gcp  ann = ann  bob = bob
  User = {ann, bob}
  Provider = {aws, gcp}
  Nameless = {}
  MaxGrants = 1
  Flow = {kiro1, google1}
  Kiro = {kiro1}
  ProviderOf <- MCProviderOf
  UserOf <- MCUserOf
  Earlier <- MCEarlier
  ApiKey = {sk1}
  Thread = {t1, t2}
  Server = server
  Unreadable = Unreadable
  NoFile = NoFile
  NoFlow = NoFlow
  MaxCalls = 1
SYMMETRY Threads
PROPERTIES SchemaMirrored
