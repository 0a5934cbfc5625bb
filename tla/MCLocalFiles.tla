---------------------------- MODULE MCLocalFiles ----------------------------
(* Instances of LocalFiles for TLC. *)
EXTENDS LocalFiles, TLC

CONSTANTS x, y, link, d1, d2, home, proj, s1, u1, p1, p2

Config(dir, policy, policy_file) ==
    [oauth_token_dir |-> dir, policy |-> policy, policy_file |-> policy_file]

(* A project and ~/.fast-gateway itself. *)
MCLocalConfig == [d \in Cwds |-> IF d = d1 THEN proj ELSE home]
MCUrl == [s \in Servers |-> u1]
MCDefault == Config(Unset, p1, FALSE)
MCWritten == {Config(Absolute, p2, FALSE), Config(Relative, p1, TRUE)}
Symmetry == Permutations(Procs)
=============================================================================
