-------------------------- MODULE SettingsAuthority --------------------------
(***************************************************************************)
(* What the owner of org.prismdrake.Settings1 promises its clients: within *)
(* one ownership epoch the generation of the complete snapshot starts at   *)
(* one and grows by one with each publication, every publication is        *)
(* announced before the next one is made, and a new owner starts over.     *)
(* SettingsService implements this, SettingsSnapshotClient relies on it.   *)
(***************************************************************************)
EXTENDS Naturals

CONSTANTS MaxGeneration,  \* numeric_limits<Generation::Value>::max()
          MaxEpoch        \* bound: ownership epochs

ASSUME AuthorityAssumption == MaxGeneration \in Nat \ {0} /\ MaxEpoch \in Nat

VARIABLES epoch,       \* the number of owners so far; also the current owner's unique name
          owned,       \* the name has an owner
          generation,  \* of the snapshot that GetCurrentSnapshot returns
          announced    \* the last generation known from ownership or a signal

authorityVars == <<epoch, owned, generation, announced>>

AuthorityTypeOK ==
    /\ epoch \in Nat
    /\ owned \in BOOLEAN
    /\ generation \in 0..MaxGeneration
    /\ announced \in 0..MaxGeneration

AuthorityInit == epoch = 0 /\ owned = FALSE /\ generation = 0 /\ announced = 0

(* The name is requested only once generation one is complete.             *)
Acquire ==
    /\ ~owned /\ epoch < MaxEpoch
    /\ owned' = TRUE /\ epoch' = epoch + 1
    /\ generation' = 1 /\ announced' = 1

Publish ==
    /\ owned /\ announced = generation /\ generation < MaxGeneration
    /\ generation' = generation + 1
    /\ UNCHANGED <<epoch, owned, announced>>

(* SettingsGenerationChanged.                                              *)
Announce ==
    /\ owned /\ announced < generation
    /\ announced' = generation
    /\ UNCHANGED <<epoch, owned, generation>>

(* The owner stops, crashes, or loses the bus.                             *)
Lose ==
    /\ owned
    /\ owned' = FALSE /\ generation' = 0 /\ announced' = 0
    /\ UNCHANGED epoch

AuthorityNext == Acquire \/ Publish \/ Announce \/ Lose

AuthoritySpec == AuthorityInit /\ [][AuthorityNext]_authorityVars
=============================================================================
