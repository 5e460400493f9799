------------------------------ MODULE CupStrip ------------------------------
(***************************************************************************)
(* What the cup lights of the board (src/EC/App, LightController and the   *)
(* UnitController that updates them) promise to who looks at the strip.    *)
(* It changes by all the entries of one payload at once, the last entry    *)
(* that names a cup deciding, or in an update.  An update follows one      *)
(* reading of all cups: the rings of removed cups turn blue, a pixel at a  *)
(* time and one ring after the other, then every cup shows its reading.    *)
(* Never does a part of a payload show, nor what is left of an earlier     *)
(* one, and no payload comes between the steps of an update.               *)
(***************************************************************************)
EXTENDS RgbEntries

CONSTANTS NumOfCups, LedsPerCup, Payload

Cup == 0 .. NumOfCups - 1
Led == 0 .. LedsPerCup - 1

VARIABLES lights,     \* pixel by pixel
          away,       \* the cups that are not there, as read last
          updating

stripVars == <<lights, away, updating>>

Green == Colour(0, 255, 0)
Red   == Colour(255, 0, 0)
Blue  == Colour(0, 0, 255)

\* The entry, of the first n, that decides what cup c shows.
Deciding(p, n, c) ==
    {i \in 0 .. n - 1 : IdAt(p, i) = c /\ \A j \in i + 1 .. n - 1 : IdAt(p, j) # c}

After(old, p, n) ==
    [c \in Cup |-> IF Deciding(p, n, c) = {} THEN old[c]
                   ELSE [l \in Led |-> RgbAt(p, CHOOSE i \in Deciding(p, n, c) : TRUE)]]

\* What a caller may give for the size of a payload: what it is, or what
\* sendPkgContentToController() makes of it.
Sizes(p) == {Len(p), RawSize([payload |-> p]) % 256}

StripInit ==
    /\ lights = [c \in Cup |-> [l \in Led |-> Green]]
    /\ away = [c \in Cup |-> FALSE]
    /\ updating = FALSE

\* New readings start an update or, when the board is not to follow, do not.
Read ==
    /\ ~updating
    /\ away' \in [Cup -> BOOLEAN]
    /\ updating' \in BOOLEAN
    /\ UNCHANGED lights

OneColour(c) == \A k, l \in Led : lights[c][k] = lights[c][l]

RemovePixel(c, l) ==
    /\ updating
    /\ away[c]
    /\ \A k \in 0 .. l - 1 : lights[c][k] = Blue
    /\ \A d \in Cup \ {c} : OneColour(d)
    /\ lights' = [lights EXCEPT ![c][l] = Blue]
    /\ UNCHANGED <<away, updating>>

Follow ==
    /\ updating
    /\ lights' = [c \in Cup |-> [l \in Led |-> IF away[c] THEN Green ELSE Red]]
    /\ updating' = FALSE
    /\ UNCHANGED away

\* An entry for all cups at once is passed over.  Past the payload, entries
\* read zeros.
Put(p) ==
    /\ ~updating
    /\ \E size \in Sizes(p) :
        /\ size # 0 /\ size % EntrySize = 0
        /\ \A i \in 0 .. size \div EntrySize - 1 : IdAt(p, i) \in Cup \cup {GetAll}
        /\ lights' = After(lights, p, size \div EntrySize)
    /\ UNCHANGED <<away, updating>>

StripNext ==
    \/ Read \/ Follow
    \/ \E c \in Cup, l \in Led : RemovePixel(c, l)
    \/ \E p \in Payload : Put(p)

Spec == StripInit /\ [][StripNext]_stripVars

=============================================================================
