--------------------------- MODULE EmailValidation ---------------------------
(***************************************************************************)
(* The deterministic check of a written email against its transcript       *)
(* (EmailValidationService.validate), and what the normaliser does to the  *)
(* numbers of the transcript before.  A text is the set of its mentions of *)
(* numbers, each with the unit or month that follows it, in whatever form  *)
(* it is written: the check does not see every form.  Everything it looks  *)
(* at besides (subject, greeting, closing, language, fillers, copies,      *)
(* names, times with the h apart) is one bit of an email, formed.          *)
(***************************************************************************)
EXTENDS Integers, Sequences

CONSTANTS
  Numerals,     \* numbers as they are written in digits that stand alone
  Halves,       \* what stands on the two sides of a decimal point or comma
  Commas,       \* the decimals that are written with a comma
  Units,        \* TND, EUR, USD, ordinateurs, computers: the third pattern ends
                \* in a letter or digit, so that after a symbol it drops it
  Months,       \* MONTHS
  Unlisted,     \* numbers in other forms: words that NUMBER_WORDS has not, or
                \* has as a part, and digits run together with letters
  Parts,        \* the words of NUMBER_WORDS in a compound such as vingt-cinq
  Matched       \* the Unlisted that a pattern takes whole, such as 9h30, 20EUR

(* NUMBER_WORDS, in the order in which find goes through it.               *)
NumberWords ==
  <<[word |-> "vingt", digits |-> "20"], [word |-> "twenty", digits |-> "20"],
    [word |-> "dix", digits |-> "10"], [word |-> "ten", digits |-> "10"],
    [word |-> "quinze", digits |-> "15"], [word |-> "fifteen", digits |-> "15"]>>

Words == {NumberWords[i].word : i \in DOMAIN NumberWords}

ASSUME NumeralsAssumption ==
  /\ Halves \in [Numerals -> SUBSET Numerals]
  /\ \A n \in Numerals : \A h \in Halves[n] : Halves[h] = {}
  /\ Commas \subseteq {n \in Numerals : Halves[n] # {}}
  /\ {"10", "15", "20"} \subseteq {n \in Numerals : Halves[n] = {}}
  /\ Words \cap Numerals = {} /\ "none" \notin Units
  /\ Unlisted \cap (Numerals \cup Words) = {}
  /\ Parts \in [Unlisted -> SUBSET Words]
  /\ Matched \subseteq {n \in Unlisted : Parts[n] = {}}

(* contains and the word boundaries ask for no letter or digit on either   *)
(* side: a decimal contains its halves, a compound its parts, and digits   *)
(* run together with letters (20kg) nothing but themselves.                *)
Within(n) ==
  {n} \cup (IF n \in Numerals THEN Halves[n] ELSE IF n \in Unlisted THEN Parts[n] ELSE {})

(* A mention of a number; other nouns than Units and Months are "none".    *)
(* Decimals and what is unlisted have no unit here, so that Within is what *)
(* precedes a label.                                                       *)
Mention ==
  {m \in [number : Numerals \cup Words \cup Unlisted, label : Units \cup Months \cup {"none"}] :
     m.label = "none" \/ m.number \in Words \/ (m.number \in Numerals /\ Halves[m.number] = {})}

(* The text that a provider writes, beside the rest of what is checked.    *)
Email == [subject : SUBSET Mention, body : SUBSET Mention, formed : BOOLEAN]
-----------------------------------------------------------------------------
Bare(n) == [number |-> n, label |-> "none"]

(* TranscriptNormalizerService puts a space after every comma: 2,5 becomes *)
(* two numbers.                                                            *)
Normalised(text) ==
  {m \in text : m.number \notin Commas}
    \cup UNION {{Bare(h) : h \in Halves[m.number]} : m \in {x \in text : x.number \in Commas}}

(* extractCriticalFacts: a number and the unit that follows it are one     *)
(* fact, a number and a month are two, of a listed word the word alone is  *)
(* a fact, in a compound too, and of other unlisted forms nothing is.      *)
Facts(text) ==
  {Bare(n) : n \in Words \cap UNION {Within(m.number) : m \in text}}
    \cup {Bare(m.number) : m \in {x \in text : \/ x.number \in Matched
                                               \/ x.number \in Numerals /\ x.label \notin Units}}
    \cup {m \in text : m.label # "none" /\ m.number \in Numerals}

(* What a number may be stated as: NUMBER_WORDS[word], or the first row    *)
(* that includes the digits, or the number itself.                         *)
RowOf(n) ==
  LET rows == {i \in DOMAIN NumberWords : n \in {NumberWords[i].word, NumberWords[i].digits}}
  IN IF rows = {} THEN {n}
     ELSE LET first == CHOOSE i \in rows : \A j \in rows : i <= j
          IN {NumberWords[first].word, NumberWords[first].digits}

Contains(text, n, label) ==
  \E m \in text : n \in Within(m.number) /\ label \in {"none", m.label}

FactIsPresent(fact, text) ==
  \E n \in RowOf(fact.number) : Contains(text, n, fact.label)

MissingFacts(said, email) ==
  {fact \in Facts(said) : ~FactIsPresent(fact, email.body)}

UnsupportedFacts(said, email) ==
  {fact \in Facts(email.subject \cup email.body) : ~FactIsPresent(fact, said)}

(* validate, for a transcript as it was normalised.                        *)
Valid(said, email) ==
  email.formed /\ MissingFacts(said, email) = {} /\ UnsupportedFacts(said, email) = {}
-----------------------------------------------------------------------------
DigitsOf(n) ==
  IF \E i \in DOMAIN NumberWords : NumberWords[i].word = n
    THEN (CHOOSE row \in {NumberWords[i] : i \in DOMAIN NumberWords} : row.word = n).digits
    ELSE n

(* The numbers that the check sees in a text, by value and whatever their *)
(* unit: twenty and vingt are 20, vingt-cinq is 20 for its part, 2.5 is 2  *)
(* and 5 besides, and trois and 20kg are no number at all.                 *)
Recognised(text) ==
  {DigitsOf(n) : n \in UNION {Within(m.number) : m \in text}} \ (Unlisted \ Matched)

(* The body has the numbers that the check sees in the transcript, and the *)
(* email no other that it would see; the normaliser leaves decimal commas  *)
(* no chance.                                                              *)
KeepsRecognised(text, email) ==
  /\ Recognised(email.body) = Recognised(text) \ Commas
  /\ Recognised(email.subject) \subseteq Recognised(text) \ Commas
=============================================================================
