----------------------------- MODULE SDI12Values -----------------------------
(***************************************************************************)
(* The D commands of class SDI12Sensor (processCommand and STATE5 in       *)
(* devices/sdi12/src/SDI12Sensor.cpp): the values of a measurement do not  *)
(* fit in one answer, so the recorder asks D0, D1, ... and asks again for  *)
(* what it did not get; the sensor keeps two indexes and the last digit to *)
(* know where an answer begins.  The recorder, which is not part of the    *)
(* code, keeps to the protocol: what was not answered it asks for again,   *)
(* or it begins again at D0; otherwise it repeats the last page it got or  *)
(* asks for the next one.                                                  *)
(***************************************************************************)
EXTENDS Naturals

CONSTANTS
  MaxCount,   \* bound: the values of a measurement
  MaxPage     \* bound: the values that fit in an answer

\* Every index is an unsigned char other than 0xFF, which means no index.
ASSUME ValuesAssumption == MaxCount \in 0..254 /\ MaxPage \in Nat \ {0}

VARIABLES
  dCount,           \* ms_dCount
  currentDindex,    \* ms_currentDindex
  nextDindex,       \* ms_nextDindex
  previousDdigit,   \* ms_previousDdigit
  previousDindex,   \* ms_previousDindex
  asked,            \* the D command that is processed but not answered yet
  missed,           \* the D command that was not answered, if it was the last
  page              \* the last page the recorder got: digit, first and next value

valuesVars == <<dCount, currentDindex, nextDindex, previousDdigit, previousDindex,
               asked, missed, page>>

Byte == 255   \* 0xFF: no digit, no index
Digits == 0..9
Nothing == [digit |-> Byte, from |-> 0, to |-> 0]

ValuesInit ==
  /\ dCount = 0 /\ currentDindex = 0 /\ nextDindex = 0
  /\ previousDdigit = Byte /\ previousDindex = 0
  /\ asked = Byte /\ missed = Byte /\ page = Nothing

\* processCommand for M, C or V: the values are new, so are the indexes.
MeasureCommand ==
  /\ asked = Byte
  /\ \E n \in 0..MaxCount : dCount' = n
  /\ currentDindex' = 0 /\ nextDindex' = 0
  /\ previousDdigit' = Byte
  /\ page' = Nothing /\ missed' = Byte
  /\ UNCHANGED <<previousDindex, asked>>

\* Any other command but D and the plain acknowledge.
OtherCommand ==
  /\ asked = Byte
  /\ previousDdigit' = Byte
  /\ UNCHANGED <<dCount, currentDindex, nextDindex, previousDindex, asked, missed, page>>

\* Variant: a digit asked for again is not told from the next one.
From_NoRepeat(digit) ==
  IF digit = 0 THEN 0
  ELSE IF digit \in {previousDdigit, previousDdigit + 1} THEN nextDindex
  ELSE Byte

\* Where the answer to a D command begins.
From(digit) ==
  IF digit = 0 THEN 0
  ELSE IF digit = previousDdigit THEN previousDindex
  ELSE IF digit = previousDdigit + 1 THEN nextDindex
  ELSE Byte

\* What a recorder that keeps to the protocol may ask for.
MayAsk(digit) ==
  \/ digit \in {0, missed}
  \/ missed = Byte /\ page # Nothing /\ digit \in {page.digit, page.digit + 1}

\* processCommand for D: as many values as fit, or as there is time for.
DCommand ==
  /\ asked = Byte /\ dCount > 0
  /\ \E digit \in Digits, n \in 0..MaxPage :
       /\ MayAsk(digit)
       /\ asked' = digit
       /\ nextDindex' = IF digit = 0 THEN 0 ELSE nextDindex
       /\ IF From(digit) = Byte
          THEN /\ currentDindex' = Byte
               /\ UNCHANGED <<previousDdigit, previousDindex>>
          ELSE /\ From(digit) + n <= dCount
               /\ currentDindex' = From(digit) + n
               /\ previousDdigit' = digit
               /\ previousDindex' = From(digit)
  /\ UNCHANGED <<dCount, missed, page>>

\* STATE5: the answer is sent; the recorder has the page, unless it is empty.
Answered ==
  /\ asked # Byte
  /\ nextDindex' = currentDindex
  /\ page' = IF currentDindex = Byte THEN page
            ELSE [digit |-> asked, from |-> previousDindex, to |-> currentDindex]
  /\ asked' = Byte /\ missed' = Byte
  /\ UNCHANGED <<dCount, currentDindex, previousDdigit, previousDindex>>

\* STATE5: the answer is late and not sent.
Late ==
  /\ asked # Byte
  /\ asked' = Byte /\ missed' = asked
  /\ UNCHANGED <<dCount, currentDindex, nextDindex, previousDdigit, previousDindex, page>>

ValuesNext == MeasureCommand \/ OtherCommand \/ DCommand \/ Answered \/ Late

ValuesSpec == ValuesInit /\ [][ValuesNext]_valuesVars

-----------------------------------------------------------------------------
\* The variables stay in their types.
ValuesTypeOK ==
  /\ dCount \in 0..MaxCount
  /\ {currentDindex, nextDindex, previousDindex} \subseteq 0..MaxCount \cup {Byte}
  /\ {previousDdigit, asked} \subseteq Digits \cup {Byte}

\* The pages that the recorder gets, in the order of their digits, are the
\* values in their order, none left out and none twice, however many answers
\* were late or asked for again, and whatever came in between.
PageFollows ==
  page' # page /\ page' # Nothing =>
    /\ page'.digit = 0 => page'.from = 0
    /\ page # Nothing /\ page'.digit = page.digit => page'.from = page.from
    /\ page # Nothing /\ page'.digit = page.digit + 1 => page'.from = page.to

PagesFollow == [][PageFollows]_valuesVars

=============================================================================
