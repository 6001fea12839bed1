--------------------------------- MODULE MCStores ---------------------------------
(***************************************************************************)
(* Small instances of the stores in the data directory.  No operation uses *)
(* both the profiles with their vault and the trusted identities, and no   *)
(* property mentions both, so a behaviour is about one of them; and none   *)
(* uses the identities of two servers, so it is about one server.          *)
(***************************************************************************)
EXTENDS ProfileVault, TrustStore, TLC

VARIABLE subject   \* what the behaviour is about: the profiles, or one server

stores == <<vars, trustVars, subject>>

StoresInit == Init /\ TrustInit /\ subject \in {"profiles"} \cup Hosts
StoresNext ==
  \/ subject = "profiles" /\ Next /\ UNCHANGED <<trustVars, subject>>
  \/ /\ subject \in Hosts /\ TrustNext
     /\ \A a \in Attempts : attempt'[a].host \in {subject, NoId}
     /\ UNCHANGED <<vars, subject>>
StoresSpec == StoresInit /\ [][StoresNext]_stores

StoresSymmetry == Permutations(Profiles) \cup Permutations(Secrets) \cup Permutations(Requests)
                    \cup Permutations(Keys) \cup Permutations(Attempts)
=================================================================================
