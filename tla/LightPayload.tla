---------------------------- MODULE LightPayload ----------------------------
(***************************************************************************)
(* What the write() functions of LightController and EdgeLightController   *)
(* (src/EC/App) share: the loop over the entries of a payload, one step    *)
(* each.  The payload is the array of a package; past the bytes that were  *)
(* set it holds zeros.                                                     *)
(***************************************************************************)
EXTENDS RgbEntries

VARIABLES writing,   \* the write() that runs: "none", "refused", "light", "edge"
          payload,   \* its ptrPayload
          entries,   \* its numOfLeds
          entry,     \* its i
          lost       \* an array was left: what follows is undefined

writeVars == <<writing, payload, entries, entry, lost>>

WriteInit ==
    /\ writing = "none"
    /\ payload = << >>
    /\ entries = 0
    /\ entry = 0
    /\ lost = FALSE

WriteTypeOK ==
    /\ writing \in {"none", "refused", "light", "edge"}
    /\ payload \in Seq(Byte)
    /\ entries \in 0 .. 63
    /\ entry \in 0 .. entries
    /\ lost \in BOOLEAN

Idle == writing = "none" /\ ~lost

\* A call with size bytes of p: who turns to the entries, or refuses them all.
Begin(who, p, size, accepts) ==
    /\ payload' = p
    /\ entry' = 0
    /\ IF accepts
       THEN writing' = who /\ entries' = size \div EntrySize
       ELSE writing' = "refused" /\ entries' = 0
    /\ UNCHANGED lost

At(who) == writing = who /\ ~lost /\ entry < entries

NextEntry ==
    /\ entry' = entry + 1
    /\ UNCHANGED <<writing, payload, entries, lost>>

\* The id of the entry is past the end of the array it is used in.
Stray ==
    /\ lost' = TRUE
    /\ UNCHANGED <<writing, payload, entries, entry>>

Return ==
    /\ writing' = "none"
    /\ payload' = << >>
    /\ entries' = 0
    /\ entry' = 0
    /\ UNCHANGED lost

=============================================================================
