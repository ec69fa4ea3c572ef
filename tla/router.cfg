SPECIFICATION FairSpec
CONSTANTS
  groq = groq
  gemini = gemini
  openrouter = openrouter
  r1 = r1
  r2 = r2
  Order <- ThreeProviders
  Requests = {r1, r2}
  Numerals <- NumeralsMC
  Halves <- HalvesMC
  Commas = {"2,5"}
  Units = {"ordinateurs", "computers"}
  Months = {"mars"}
  Unlisted <- UnlistedMC
  Parts <- PartsMC
  Matched = {"9h30", "10h30"}
  Transcript <- TranscriptMC
  Drafts <- DraftsMC
  MaxAttempts = 2
  Threshold = 2
  Cooldown = 2
  Timeout = 1
  Wrap = 3
  LastArrival = 1
  MaxTime = 6
INVARIANTS TypeOK BreakerHolds AnsweredInTime CompletedKeepsRecognised
PROPERTIES CooldownKept EveryRequestAnswered
CHECK_DEADLOCK FALSE
