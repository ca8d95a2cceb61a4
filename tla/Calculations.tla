---------------------------- MODULE Calculations ----------------------------
(***************************************************************************)
(* The two calculations of the pool that keep no state, side by side: a run  *)
(* either splits the reward of a round or builds the coinbase of a job.      *)
(***************************************************************************)
EXTENDS Integers, FiniteSets

CONSTANTS
  FeeUnit, NoAddress, Lower, Miners, MaxShares, MaxReward, MaxTxFee,   \* RewardSplit's
  Heights, Times, FlagLengths, ExtraLengths, CommitmentLengths, Wallets \* Coinbase's

ASSUME CalculationsAssumption ==
  /\ FeeUnit \in Nat \ {0}
  /\ IsFiniteSet(Miners)
  /\ MaxShares \in Nat /\ MaxReward \in Nat /\ MaxTxFee \in Nat
  /\ \A h \in Heights : h \in Nat /\ h > 16 /\ h <= 2147483647  \* a node's heights are int32
  /\ \A t \in Times : t \in Nat /\ t <= 2147483647              \* until 2038
  /\ \A n \in FlagLengths \cup ExtraLengths : n \in Nat /\ n <= 30000

VARIABLES round, rewards, coinbase, job, raw

NoInput == [unused |-> TRUE]

Split == INSTANCE RewardSplit WITH input <- round, Logins <- Miners
Build == INSTANCE Coinbase WITH input <- coinbase

CalculationsInit ==
  \/ Split!Init /\ coinbase = NoInput /\ job = Build!None /\ raw = Build!None
  \/ Build!Init /\ round = NoInput /\ rewards = Split!NoRewards

CalculationsNext ==
  \/ round # NoInput /\ Split!Next /\ UNCHANGED <<coinbase, job, raw>>
  \/ coinbase # NoInput /\ Build!Next /\ UNCHANGED <<round, rewards>>

CalculationsSpec ==
  CalculationsInit /\ [][CalculationsNext]_<<round, rewards, coinbase, job, raw>>

-----------------------------------------------------------------------------
(* The properties of both.                                                  *)

\* No part of a reward is dropped, overwritten or counted twice
\* (calculateRewards, for every fee setting and for a pool that mines itself).
SplitIsAccurate == Split!SplitIsAccurate

\* A node reads the height that the job was made for (PackNumber).
HeightFirst == Build!HeightFirst

\* A node finds the extra nonces where their push is, and the outputs are the
\* wallet's and the commitment's (_generateCoinB, GetCoinBaseScript).
ReadAsMeant == Build!NoncesInPush /\ Build!PaysWallet
=============================================================================
