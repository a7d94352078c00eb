---------------------------- MODULE MCVoiceRooms ----------------------------
(***************************************************************************)
(* Small instances of VoiceRooms: a user with up to two tabs, another with *)
(* a single connection.                                                    *)
(***************************************************************************)
EXTENDS VoiceRooms, TLC

CONSTANTS u1, u2, a1, a2, b1

MCUserOf == [c \in Clients |-> IF c = b1 THEN u2 ELSE u1]

\* Users are interchangeable, each with its connections.
Symmetry ==
    {p \in Permutations(Users \cup Clients) :
        \A c \in Clients : p[c] \in Clients /\ UserOf[p[c]] = p[UserOf[c]]}

=============================================================================
