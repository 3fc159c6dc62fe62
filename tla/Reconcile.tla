------------------------------ MODULE Reconcile ------------------------------
(***************************************************************************)
(* The decision ReconcileInterface takes between its read and its write    *)
(* (internal/scp/firewall.go): which policy ids the interface is to carry, *)
(* and whether that differs from what it carries.  The code builds a list; *)
(* the API treats the attachments as a set, and so do these operators.     *)
(***************************************************************************)
EXTENDS Integers, FiniteSets

\* Attached ids that survive: every one whose name need not be absent.
KeptIds(user, nameOf, absent) == {p \in user : nameOf[p] \notin absent}

\* Mistakes that mutation runs put in the place of the definitions below: the
\* write replaces what was attached; the comparison looks at the sizes only.
FinalIdsReplacing(user, nameOf, present, absent) == present \ {0}
IsChangedBySize(current, final) == Cardinality(current) # Cardinality(final)

\* The ids the write carries.  Id 0 means "policy not in use" and is skipped.
FinalIds(user, nameOf, present, absent) ==
    KeptIds(user, nameOf, absent) \cup (present \ {0})

\* The code's test for a needed write: compare the sizes first, then look for
\* an id that is not attached yet.
IsChanged(current, final) ==
    \/ Cardinality(current) # Cardinality(final)
    \/ \E id \in final : id \notin current

==============================================================================
