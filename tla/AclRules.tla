------------------------------- MODULE AclRules -------------------------------
(***************************************************************************)
(* AuthManager's list of ACL rules: what add_acl_rule and remove_acl_rule  *)
(* make of it.  A rule is a record with a priority, and, where it is used  *)
(* to decide, with the clients it matches and what it does.                *)
(***************************************************************************)
EXTENDS Naturals, Sequences, FiniteSets

\* Vec::retain: the elements at the positions in keep, in their order.
Retained(rules, keep) ==
    [n \in 1..Cardinality(keep) |->
        rules[CHOOSE i \in keep : Cardinality({j \in keep : j < i}) = n - 1]]

\* The order in which rules are tried: by falling priority.
Ordered(rules) ==
    \A i, j \in 1..Len(rules) : i < j => rules[i].priority >= rules[j].priority

\* Mutant: the rule is appended and the list left unsorted.
WithRuleUnsorted(rules, r) == Append(rules, r)

\* add_acl_rule pushes the rule and sorts by descending priority; the sort is stable and the
\* list was sorted before, so that the rule goes behind those that are not below it.
WithRule(rules, r) ==
    LET k == Cardinality({i \in 1..Len(rules) : rules[i].priority >= r.priority})
    IN SubSeq(rules, 1, k) \o <<r>> \o SubSeq(rules, k + 1, Len(rules))

\* What a call of add_acl_rule for each rule of a list in turn makes of the empty list: the
\* rules by falling priority, equal ones in the order of the list.  p is the permutation.
SortOf(sorted, rules) ==
    LET positions == 1..Len(rules)
    IN \E p \in [positions -> positions] :
         /\ \A i, j \in positions : i < j =>
              \/ rules[p[i]].priority > rules[p[j]].priority
              \/ rules[p[i]].priority = rules[p[j]].priority /\ p[i] < p[j]
         /\ sorted = [i \in positions |-> rules[p[i]]]

\* check_acl: the first rule that matches decides.
Admits(rules, c) ==
    LET matching == {i \in 1..Len(rules) : c \in rules[i].match}
    IN \A i \in matching : (\A j \in matching : i <= j) => rules[i].allow
=============================================================================
