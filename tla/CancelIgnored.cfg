SPECIFICATION Spec
CONSTANTS
  Definitions <- GatedTwice
  Handlers = {h1}
  Requests = {r1}
  MaxAttempts = 2
PROPERTY
  NoLeaseAfterCancel
