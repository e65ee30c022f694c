------------------------------- MODULE MCImage -------------------------------
(* Small instances of ImageArtifacts.  Processes and hashes are interchangeable. *)
EXTENDS ImageArtifacts, TLC
CONSTANTS j1, j2, p1, p2, h1, h2
Perms == Permutations({p1, p2}) \cup Permutations({h1, h2})

Load(m, jobs, runs, typed) == [mode |-> m, jobs |-> jobs, runs |-> runs, typed |-> typed]

\* Two jobs that compete for the conversation; one job whose conversation a person also uses;
\* one job with an operator, whose result may come after the grant.
MCLoads == {Load("NATIVE", {j1, j2}, 3, 0), Load("NATIVE", {j1}, 2, 1), Load("ASSISTED", {j1}, 3, 0)}
=============================================================================
