-------------------------- MODULE ProviderRouterMC --------------------------
(* An instance of ProviderRouter for TLC: three providers, a request in    *)
(* French and one in English with a decimal comma, both with numbers that  *)
(* the check does not recognise, and emails that state their numbers in    *)
(* words, in digits, wrongly, or not at all.                               *)
EXTENDS ProviderRouter, TLC

CONSTANTS groq, gemini, openrouter, r1, r2

ThreeProviders == <<groq, gemini, openrouter>>

NumeralsMC == {"2", "5", "2,5", "10", "15", "20"}
HalvesMC == [n \in NumeralsMC |-> IF n = "2,5" THEN {"2", "5"} ELSE {}]

UnlistedMC ==
  {"trois", "quatre", "20kg", "30kg", "twenty-five", "twenty-six", "9h30", "10h30"}
PartsMC ==
  [n \in UnlistedMC |-> IF n \in {"twenty-five", "twenty-six"} THEN {"twenty"} ELSE {}]

Of(n, label) == [number |-> n, label |-> label]
TranscriptMC ==
  r1 :> {Of("vingt", "ordinateurs"), Of("15", "mars"), Bare("trois"), Bare("20kg")}
    @@ r2 :> {Of("twenty", "computers"), Bare("2,5"), Bare("twenty-five"), Bare("9h30")}

Body(text) == [subject |-> {}, body |-> text, formed |-> TRUE]
DraftsMC ==
  LET french == {Of("20", "ordinateurs"), Of("15", "mars"), Bare("quatre"), Bare("30kg")}
      english == {Of("twenty", "computers"), Bare("2"), Bare("5"), Bare("twenty-six")}
  IN {Body(french), [Body(TranscriptMC[r1]) EXCEPT !.subject = french],
      [Body(french) EXCEPT !.formed = FALSE],
      Body(french \cup {Bare("10")}), Body({Of("15", "mars")}),
      Body(english \cup {Bare("9h30")}), Body(english \cup {Bare("10h30")}),
      Body(TranscriptMC[r2])}
=============================================================================
