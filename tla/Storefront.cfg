CONSTANTS
  Session = {s1}
  Request = {r1, r2}
  Digital = {d1}
  Service = {v1}
  Credit = {c1}
  NoOffer = NoOffer
  NoOutcome = NoOutcome
  NoJob = NoJob
  MaxDownloads = 2
  MaxFault = 2
SPECIFICATION FairSpec
INVARIANTS TypeOK FulfilledOnce DownloadsBounded
PROPERTIES SalesAreFinal PaidIsProcessed
