----------------------------- MODULE MCSyncJobs -----------------------------
(***************************************************************************)
(* Instances of SyncJobs for TLC.                                          *)
(***************************************************************************)
EXTENDS SyncJobs, TLC

CONSTANTS c1, d1, d2

(* Message 1 of c1 has two hosts, message 2 repeats one of them, message 3 *)
(* has no URL; other chats repeat a host.                                 *)
MCDomainsOf == [c \in Chat |-> [m \in 1..MaxMsg |->
  CASE m = 3 -> {}
    [] m = 1 /\ c = c1 -> {d1, d2}
    [] OTHER -> {d1}]]

(* The account has every chat, or has left the last one. *)
MCDialogs == {Chat, {c1}}

Rows == Permutations(Job) \union Permutations(Request)
=============================================================================
