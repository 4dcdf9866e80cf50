-------------------------- MODULE MCWriterAuthority --------------------------
(* The writer's authority: the lease of two executables with a receipt of   *)
(* each kind, and the files that hold it, failing at every step of          *)
(* persist_state.  What a lease stores is one number to the files and what  *)
(* the files do is one step to the lease, so they share no variable, and a  *)
(* behaviour moves one of them while the other stays as it begins.          *)
EXTENDS WriterLease, AuthorityFile, TLC

Symmetric == Permutations(Processes)

AuthorityInit == LeaseInit /\ FileInit

AuthorityNext ==
    \/ LeaseNext /\ FileInit /\ UNCHANGED fileVars
    \/ FileNext /\ LeaseInit /\ UNCHANGED leaseVars

AuthoritySpec == AuthorityInit /\ [][AuthorityNext]_<< leaseVars, fileVars >>

=============================================================================
