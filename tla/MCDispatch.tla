----------------------------- MODULE MCDispatch -----------------------------
(* Instances of Dispatch for TLC: see the MCDispatch*.cfg files. *)
EXTENDS Dispatch, TLC

CONSTANTS o1, o2, a1, a2, w1, w2, k1

\* One dispatch, for the runs that look into a single delivery.
SoleKind    == o1 :> "dispatch"
SoleAccount == o1 :> a1

\* A dispatch and a management notice that compete for one account; the notice may
\* follow its owner to another.
NoticeKind == o1 :> "dispatch" @@ o2 :> "management"
OneAccount == o1 :> a1 @@ o2 :> a1

WorkerSymmetry == Permutations({w1, w2})
=============================================================================
