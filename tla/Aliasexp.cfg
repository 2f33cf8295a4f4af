SPECIFICATION ExpansionSpec
CONSTANTS
  MailDomains = {"d", "e"}
  Addresses <- ThreeAddresses
  Tagged <- OneTag
  Gotos <- SomeGotos
  NoDomain = ""
  Tables <- SomeTables
  MaxLoops = 3
INVARIANTS OnlyMailbox FoundIsReachable
PROPERTIES Ends
