------------------------------ MODULE Playout ------------------------------
(***************************************************************************)
(* What the playback of one stream promises: from the sequence it starts    *)
(* with, every sequence number is either handed to the AudioTrack, as a      *)
(* whole frame or cut short, or counted as lost, exactly once and in order,  *)
(* and nothing is played after the stream has ended.  PlaybackStream         *)
(* implements this specification.                                          *)
(***************************************************************************)
EXTENDS Integers

CONSTANT Seqs        \* sequence numbers

VARIABLES
    cursor,          \* the next sequence to account for; -1 before the first
    played,
    cut,             \* the track took a part of the frame, or nothing of it
    lost,
    ended

playoutVars == <<cursor, played, cut, lost, ended>>

Init == cursor = -1 /\ played = {} /\ cut = {} /\ lost = {} /\ ended = FALSE

Begin == /\ ~ended /\ cursor = -1
         /\ cursor' \in Seqs
         /\ UNCHANGED <<played, cut, lost, ended>>

Play == /\ ~ended /\ cursor # -1
        /\ played' = played \cup {cursor}
        /\ cursor' = cursor + 1
        /\ UNCHANGED <<cut, lost, ended>>

PlayCut == /\ ~ended /\ cursor # -1
           /\ cut' = cut \cup {cursor}
           /\ cursor' = cursor + 1
           /\ UNCHANGED <<played, lost, ended>>

Skip == /\ ~ended /\ cursor # -1
        /\ \E k \in Seqs : /\ k > 0
                           /\ lost' = lost \cup (cursor .. cursor + k - 1)
                           /\ cursor' = cursor + k
        /\ UNCHANGED <<played, cut, ended>>

End == ~ended /\ ended' = TRUE /\ UNCHANGED <<cursor, played, cut, lost>>

Next == Begin \/ Play \/ PlayCut \/ Skip \/ End

Spec == Init /\ [][Next]_playoutVars

-----------------------------------------------------------------------------

\* No number is accounted for twice, none lies ahead, and none was left out since
\* the first: apart from the frames cut short, of which the app keeps no count,
\* its loss statistics add up.
Accounted ==
    LET known == played \cup cut \cup lost
    IN  /\ played \cap lost = {} /\ cut \cap (played \cup lost) = {}
        /\ \A s \in known : s < cursor
        /\ \A s \in known : \A t \in s .. cursor - 1 : t \in known
=============================================================================
