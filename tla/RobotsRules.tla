---------------------------- MODULE RobotsRules ----------------------------
(***************************************************************************)
(* What a robots.txt file forbids: RobotsTxt::parseBody and the rule loop  *)
(* of RobotsTxt::allowed (src/robots_txt.cpp).  A file is a sequence of    *)
(* lines [key, value], already trimmed, lowered and without comments, as   *)
(* the loop over std::getline has them; agents and paths are sequences of  *)
(* letters.                                                                *)
(***************************************************************************)
EXTENDS Naturals, Sequences, SequencesExt

CONSTANT OurUA   \* RobotsTxt::ua_, lowered

\* std::string::find(s) # npos: the empty string is found everywhere.
Within(s, t) == \E i \in 0..Len(t) : i + Len(s) <= Len(t) /\ SubSeq(t, i + 1, i + Len(s)) = s

\* A group is ours by "*" or by either name containing the other.
NamesUs(agent) == agent = <<"*">> \/ Within(agent, OurUA) \/ Within(OurUA, agent)

(* parseBody: inMatchingGroup, the open group and the rules kept so far. *)
NoRules == [ours |-> FALSE, group |-> <<>>, rules |-> <<>>]

FlushGroup(st) ==
    IF st.ours THEN [ours |-> FALSE, group |-> <<>>, rules |-> st.rules \o st.group] ELSE st

\* Every agent line opens a group; an empty value is no rule.
ReadLine(st, line) ==
    CASE line.key = "user-agent" -> [FlushGroup(st) EXCEPT !.ours = NamesUs(line.value)]
      [] line.key \in {"allow", "disallow"} /\ st.ours /\ line.value # <<>> ->
           [st EXCEPT !.group = Append(@, [allow |-> line.key = "allow", path |-> line.value])]
      [] OTHER -> st

ParseBody(file) ==
    LET after[i \in 0..Len(file)] ==
            IF i = 0 THEN NoRules ELSE ReadLine(after[i - 1], file[i])
    IN FlushGroup(after[Len(file)]).rules

\* Mutant: of two rules of the same length the later one decides.
LaterWins(best, rule, path) ==
    IF Len(rule.path) < best.len \/ ~IsPrefix(rule.path, path) THEN best
    ELSE [len |-> Len(rule.path), allow |-> rule.allow]

(* allowed: the longest matching rule decides and Allow wins ties. *)
Weigh(best, rule, path) ==
    IF Len(rule.path) < best.len \/ ~IsPrefix(rule.path, path) THEN best
    ELSE [len |-> Len(rule.path),
          allow |-> rule.allow \/ (Len(rule.path) = best.len /\ best.allow)]

\* A path that no rule matches is allowed, as is every path without rules.
AllowedBy(kept, path) ==
    LET best[i \in 0..Len(kept)] ==
            IF i = 0 THEN [len |-> 0, allow |-> TRUE] ELSE Weigh(best[i - 1], kept[i], path)
    IN best[Len(kept)].allow

----------------------------------------------------------------------------
(* The rules in force, from the file as a whole: those whose nearest agent *)
(* line above names us.                                                    *)
InForce(file) ==
    {i \in DOMAIN file :
        /\ file[i].key \in {"allow", "disallow"} /\ file[i].value # <<>>
        /\ \E a \in 1..i : /\ file[a].key = "user-agent" /\ NamesUs(file[a].value)
                           /\ \A j \in a+1..i : file[j].key # "user-agent"}

\* Each rule that forbids the path gives way to one as long that allows it.
Permits(file, path) ==
    LET matching == {i \in InForce(file) : IsPrefix(file[i].value, path)} IN
    \A i \in matching : file[i].key = "disallow" =>
        \E j \in matching : file[j].key = "allow" /\ Len(file[j].value) >= Len(file[i].value)

\* parseBody and allowed decide a path as the file as a whole does.
ReadRight(file, path) == AllowedBy(ParseBody(file), path) <=> Permits(file, path)
=============================================================================
