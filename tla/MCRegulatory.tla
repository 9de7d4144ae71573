---------------------------- MODULE MCRegulatory ----------------------------
\* Small instances of Regulatory: two circulars, each of which drafts a change
\* of the same rule: amended until today only, or withdrawn for good.
EXTENDS Regulatory

CONSTANTS older, newer
HomeOfAll == [w \in Workers |-> CHOOSE r \in Replicas : TRUE]
DraftedBy == [p \in Proposals |-> IF p = older THEN 1 ELSE 2]
SameRule == [p \in Proposals |-> CHOOSE rule \in Rules : TRUE]
ExtendOrWithdraw ==
  {[withdraws |-> FALSE, from |-> 0, to |-> 0], [withdraws |-> TRUE, from |-> 0, to |-> MaxDay]}
=============================================================================
