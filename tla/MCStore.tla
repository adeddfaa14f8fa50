------------------------------- MODULE MCStore -------------------------------
(***************************************************************************)
(* The store in three worlds, one of which is chosen at the start.         *)
(*                                                                         *)
(*   serial      one request at a time, two samples, nobody acts as an     *)
(*               admin: what must hold when nothing overlaps;              *)
(*   sqlite      two overlapping requests for one sample, one writer at a  *)
(*               time (ContentStore);                                      *)
(*   postgresql  the same with overlapping transactions and foreign keys   *)
(*               (StoreOnPostgres).                                        *)
(***************************************************************************)
EXTENDS StoreOnPostgres, TLC

CONSTANTS
    c1, c2, alice, bob, h1, h2,
    Worlds  \* the worlds the run looks at

VARIABLE world

TwoClients == {c1, c2}
TwoPrincipals == {alice, bob}
OneAdmin == {bob}
TwoHashes == {h1, h2}
AllWorlds == {"serial", "sqlite", "postgresql"}
Sqlite == {"sqlite"}

ClientSymmetry == Permutations(TwoClients)

Busy == {c \in Clients : call[c] # Idle}

\* One request at a time, and nobody reads what was not granted.
OneByOne ==
    /\ \A c, d \in Busy' : c = d
    /\ \A c \in Busy' : call'[c].step = "require" => <<call[c].who, call[c].hash>>' \in access

\* Two requests for one sample, with less failing.
Together ==
    /\ \A c \in Busy' : call'[c].step \in UploadSteps \cup UnpackSteps => call'[c].hash = h1
    /\ crashes' <= 1
    /\ faults' <= 1

MCInit == PgInit /\ world \in Worlds

MCNext ==
    /\ \/ world = "serial" /\ Next /\ OneByOne /\ UNCHANGED txn
       \/ world = "sqlite" /\ Next /\ Together /\ UNCHANGED txn
       \/ world = "postgresql" /\ PgNext /\ Together
    /\ UNCHANGED world

MCSpec == MCInit /\ [][MCNext]_<<pgvars, world>>

-----------------------------------------------------------------------------
(* Properties of ContentStore and StoreOnPostgres, in the world they are     *)
(* claimed for                                                               *)

\* One request at a time, every grant and artifact names a sample that has its row
\* (ReferencesResolve): retention.py deletes a binary only when nobody refers to it.
SerialReferencesResolve == world = "serial" => ReferencesResolve

\* One request at a time, no purge leaves a sample that nobody can see
\* (SamplesHaveHolders): references are counted after the owner's rows are gone.
SerialSamplesHaveHolders == world = "serial" => SamplesHaveHolders

\* One request at a time, nothing of a purged sample stays on the disk
\* (NoForgottenFiles), unless a crash or a failing file operation left it there.
SerialNoForgottenFiles == world = "serial" => NoForgottenFiles

\* On PostgreSQL, whatever overlaps and whatever foreign keys refuse, no stored sample
\* is left without a row (SamplesNotForgotten) while nothing crashes or fails.
PostgresSamplesNotForgotten == world = "postgresql" => SamplesNotForgotten
=============================================================================
