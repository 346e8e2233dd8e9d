------------------------------ MODULE Iptables ------------------------------
(***************************************************************************)
(* Chains of iptables rules, as the client in src/src/systemd/iptables.py  *)
(* reads and changes them. A chain is a sequence of rules; a rule is a     *)
(* record, equal to another only if every argument is; its "tag" is its    *)
(* comment. One command changes one rule.                                  *)
(***************************************************************************)
EXTENDS Naturals, Sequences, SequencesExt

(* -A; -I with a position. *)
AppendRule(chain, rule) == Append(chain, rule)
InsertRule(chain, position, rule) == InsertAt(chain, position, rule)

(* rule_exists; -D with a rule deletes its first copy.                     *)
RuleExists(chain, rule) == Contains(chain, rule)
DeleteRule(chain, rule) == RemoveFirst(chain, rule)

(* remove_by_comment: whether a listing shows a line with the tag, the     *)
(* number of the first one, and -D with a line number.                     *)
IsTagged(chain, tag) == \E i \in DOMAIN chain : chain[i].tag = tag
TaggedLine(chain, tag) == SelectInSeq(chain, LAMBDA rule : rule.tag = tag)

(* Mutant: the line number counts from zero.                               *)
DeletePrevious(chain, line) == RemoveAt(chain, IF line > 1 THEN line - 1 ELSE line)

DeleteLineNumber(chain, line) == RemoveAt(chain, line)

(* The line of the first DROP rule of a listing, 0 if there is none.       *)
FindDropLineNumber(chain) == SelectInSeq(chain, LAMBDA rule : rule.verdict = "DROP")

(* The kernel applies the first rule that matches, else the policy.        *)
FirstMatch(chain, Matches(_), policy) ==
    LET i == SelectInSeq(chain, Matches) IN IF i = 0 THEN policy ELSE chain[i].verdict
=============================================================================
