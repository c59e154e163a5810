---------------------------- MODULE MCOmsService ----------------------------
(* Requests for TLC: the lists of systems and services name the service, or *)
(* others only, or are omitted.                                             *)
EXTENDS OmsService

Lists == {{}, {"mine"}, {"other"}, {"mine", "other"}}

\* Requests that give both lists or omit both.
MCBothOrNone == {r \in Lists \X Lists : (r[1] = {}) = (r[2] = {})}

\* Requests that may omit one list only.
MCAnyLists == Lists \X Lists

MCSystemIds == [r \in MCAnyLists |-> r[1]]

MCServiceIds == [r \in MCAnyLists |-> r[2]]

=============================================================================
