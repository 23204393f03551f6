--------------------------- MODULE MCSensorBridge ---------------------------
(* Small instances of SensorBridge: what the devices send. *)
EXTENDS SensorBridge

CONSTANT s1

Reading(v) == [sensor |-> s1, level |-> v, dated |-> TRUE, decodes |-> TRUE]
Garbled == [Reading(0) EXCEPT !.decodes = FALSE]
Undated == [sensor |-> s1, level |-> 0, dated |-> FALSE, decodes |-> TRUE]

Values == {0, 1, 4, 9}

\* With two readings of warm-up the third record is judged. A jump from a graded
\* history scores below ten, one from a flat history far above; the record that
\* cannot be read comes first, alone in its batch or with the next one; the one that does
\* not decode has one in front of it and one behind.
Graded == <<Reading(0), Reading(1), Reading(4)>>
Flat == <<Reading(0), Reading(0), Reading(9)>>
Torn == <<Undated, Reading(0)>>
Blocked == <<Reading(0), Garbled, Reading(1)>>
AllFeeds == {Graded, Flat, Torn, Blocked}
=============================================================================
