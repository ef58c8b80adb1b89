----------------------------- MODULE MCInstaller -----------------------------
(* Small instances of Installer: the plans and the failures of its runs. *)
EXTENDS Installer, TLC

CONSTANTS a, b, c, r, s, manifest, file

\* Installs of one resource, and of two.
OneResource == [i \in Tx |-> r]
TwoResources == [i \in Tx |-> IF i = a THEN r ELSE s]

NoDeps == [i \in Tx |-> <<>>]
TwoDeps == [i \in Tx |-> IF i = a THEN <<b, c>> ELSE <<>>]

\* Bound: how far a run goes on after an error that the code passes over.  It
\* looks at the state with the error in it, and goes on from there when s is
\* the only resource concerned and the process has not crashed before.
FewForgiven == forgiven = {} \/ (forgiven \subseteq {s} /\ crashes = 0)

\* No failure of a restore: it leaves files behind, and the transactions and
\* answers of the installs as they are.
AllButRestore == Failures \ {"restore"}
=============================================================================
