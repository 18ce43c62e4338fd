-------------------------- MODULE PermissionRules ---------------------------
(***************************************************************************)
(* The permission rules of a tool call (permission/permission.go, and      *)
(* checkPermission of agent/run/run.go): what a configuration is read as,  *)
(* how the rulesets of an agent are merged, how a pattern is matched, and  *)
(* what a call with several resources is answered.                         *)
(*                                                                         *)
(* A pattern, an action or a resource is a sequence of characters, as the  *)
(* matcher reads it.  A behaviour is one match, or one check of a call.    *)
(***************************************************************************)
EXTENDS Integers, Sequences, FiniteSets, FiniteSetsExt, SequencesExt

CONSTANTS Letters,      \* bound: the characters besides the wildcards
          MaxPattern,   \* bound: characters of a pattern
          MaxValue,     \* bound: characters of a value
          Forms,        \* bound: the configurations of an agent and of the server
          Calls,        \* bound: the calls, [action, resources]
          None

VARIABLES scan,   \* wildcardMatch: [pattern, value, pi, vi, star, mark, result]
          check   \* checkPermission: [rules, call, next, asks, denied, done]

rulesVars == <<scan, check>>

Star == <<"*">>
Words(alphabet, max) == UNION {[1..n -> alphabet] : n \in 0..max}

-----------------------------------------------------------------------------
(* The matcher: indexes count from 0 and star is -1 before a first "*".    *)

Scanning(pattern, value) ==
  [pattern |-> pattern, value |-> value, pi |-> 0, vi |-> 0, star |-> -1, mark |-> 0,
   result |-> "running"]

InPattern(s) == s.pi < Len(s.pattern)
InValue(s) == s.vi < Len(s.value)
Pattern(s) == s.pattern[s.pi + 1]
Value(s) == s.value[s.vi + 1]

\* One turn of its loop.  A character is compared with the value before it is
\* looked at as a "*"; where neither fits, the last "*" takes one character
\* more, or there is no match.  At the end of the value only "*" may be left
\* of the pattern.
turn(s) ==
  CASE InValue(s) /\ InPattern(s) /\ Pattern(s) \in {"?", Value(s)} ->
         [s EXCEPT !.pi = @ + 1, !.vi = @ + 1]
    [] InValue(s) /\ InPattern(s) /\ Pattern(s) = "*" /\ Value(s) # "*" ->
         [s EXCEPT !.star = s.pi, !.mark = s.vi, !.pi = @ + 1]
    [] InValue(s) /\ ~(InPattern(s) /\ Pattern(s) \in {"?", "*", Value(s)}) ->
         IF s.star # -1
         THEN [s EXCEPT !.pi = s.star + 1, !.mark = @ + 1, !.vi = s.mark + 1]
         ELSE [s EXCEPT !.result = "no"]
    [] ~InValue(s) ->
         [s EXCEPT !.result =
            IF \A i \in s.pi + 1..Len(s.pattern) : s.pattern[i] = "*" THEN "yes" ELSE "no"]

\* The match of the run, one turn at a time.
Scan ==
  /\ scan.result = "running"
  /\ scan' = turn(scan)
  /\ UNCHANGED check

\* All turns of the loop at once.  Each takes it further in the pattern or moves
\* the last "*" one character on, so that these are enough.
wildcardMatch(pattern, value) ==
  LET turns == (Len(value) + 1) * (Len(pattern) + 2)
      after[n \in 0..turns] ==
        IF n = 0 THEN Scanning(pattern, value)
        ELSE LET before == after[n - 1]
             IN IF before.result = "running" THEN turn(before) ELSE before
  IN after[turns].result = "yes"

match(pattern, value) == pattern \in {<<>>, Star, value} \/ wildcardMatch(pattern, value)

-----------------------------------------------------------------------------
(* Rulesets. *)

Effects == {"allow", "ask", "deny"}

normalizeRule(rule) ==
  [rule EXCEPT !.action = IF @ = <<>> THEN Star ELSE @, !.resource = IF @ = <<>> THEN Star ELSE @]

\* A ruleset is read from an effect, from an object of actions (each an effect or an
\* object of resources) or from an array of rules; an unknown effect refuses it all.
UnmarshalJSON(form) ==
  LET rules ==
        CASE form.kind = "effect" -> <<[action |-> Star, resource |-> Star, effect |-> form.effect]>>
          [] form.kind = "object" ->
               FlattenSeq([i \in DOMAIN form.actions |->
                 LET a == form.actions[i]
                 IN [j \in DOMAIN a.resources |->
                       [action |-> a.action, resource |-> a.resources[j].resource,
                        effect |-> a.resources[j].effect]]])
          [] form.kind = "array" -> form.rules
      read == [i \in DOMAIN rules |-> normalizeRule(rules[i])]
  IN IF \A i \in DOMAIN read : read[i].effect \in Effects THEN read ELSE None

\* The agent's rules, then the server's, which come later and so win.
effectivePermissions(agent, server) == UnmarshalJSON(agent) \o UnmarshalJSON(server)

Covers(rule, action, resource) ==
  match(rule.action, action) /\ match(rule.resource, resource)

\* Every rule that matches overwrites the effect, and without one it is allowed.
Evaluate(action, resource, rules) ==
  LET effect[i \in 0..Len(rules)] ==
        IF i = 0 THEN "allow"
        ELSE IF Covers(rules[i], action, resource) THEN rules[i].effect ELSE effect[i - 1]
  IN effect[Len(rules)]

\* Of a call without a resource it is "*" that is checked.
permissionTarget(call) == IF call.resources = <<>> THEN <<Star>> ELSE call.resources

\* One turn of the loop over the resources: the first that is denied ends it.
CheckResource ==
  LET resources == permissionTarget(check.call)
      resource == resources[check.next]
      effect == Evaluate(check.call.action, resource, check.rules)
  IN /\ ~check.done
     /\ check' = [check EXCEPT !.next = @ + 1,
                               !.denied = IF effect = "deny" THEN resource ELSE @,
                               !.asks = IF effect = "ask" THEN Append(@, resource) ELSE @,
                               !.done = effect = "deny" \/ check.next = Len(resources)]
     /\ UNCHANGED scan

-----------------------------------------------------------------------------
NoScan == [pattern |-> <<>>, value |-> <<>>, pi |-> 0, vi |-> 0, star |-> -1, mark |-> 0, result |-> "none"]
NoCheck == [rules |-> <<>>, call |-> None, next |-> 1, asks |-> <<>>, denied |-> None, done |-> TRUE]

Checking(agent, server, call) ==
  [NoCheck EXCEPT !.rules = effectivePermissions(agent, server), !.call = call, !.done = FALSE]

Init ==
  \/ /\ \E pattern \in Words(Letters \cup {"*", "?"}, MaxPattern),
           value \in Words(Letters \cup {"*"}, MaxValue) : scan = Scanning(pattern, value)
     /\ check = NoCheck
  \/ /\ \E agent, server \in {form \in Forms : UnmarshalJSON(form) # None}, call \in Calls :
          check = Checking(agent, server, call)
     /\ scan = NoScan

Next == Scan \/ CheckResource

-----------------------------------------------------------------------------
(* What a pattern means: "?" is any one character and "*" is any number of *)
(* them.  The first p characters of the pattern take the first at[p] of    *)
(* the value.                                                              *)
Takes(character, value, from, to) ==
  IF character = "*" THEN from <= to
  ELSE to = from + 1 /\ character \in {"?", value[to]}

Means(pattern, value) ==
  \E at \in [0..Len(pattern) -> 0..Len(value)] :
    /\ at[0] = 0 /\ at[Len(pattern)] = Len(value)
    /\ \A p \in 1..Len(pattern) : Takes(pattern[p], value, at[p - 1], at[p])

(* The matcher, which backtracks to its last "*" only, never takes a value *)
(* that the pattern does not mean, and takes every one that it means and   *)
(* that holds no "*".  (A "*" of the pattern that meets a "*" of the value *)
(* is taken for that character and forgotten, so that "r*" does not match  *)
(* "r*.t".)                                                                *)
MatcherIsRight ==
  /\ scan.result = "yes" => Means(scan.pattern, scan.value)
  /\ scan.result = "no" /\ Means(scan.pattern, scan.value) => "*" \in Range(scan.value)

(* What a call is answered is what the last rule that covers each of its   *)
(* resources says, whatever came before: denied as soon as one is denied,  *)
(* and otherwise asked for exactly those that ask, in their order.  A rule *)
(* covers what its patterns mean; whether it covers an action or resource  *)
(* that holds a "*" is left to the matcher.                                *)
Meets(pattern, value) ==
  IF "*" \in Range(value) THEN match(pattern, value)
  ELSE pattern = <<>> \/ Means(pattern, value)

Says(rules, action, resource) ==
  LET covering == {i \in 1..Len(rules) :
                     Meets(rules[i].action, action) /\ Meets(rules[i].resource, resource)}
  IN IF covering = {} THEN "allow" ELSE rules[Max(covering)].effect

Asking(resources, n) ==
  {i \in 1..n : Says(check.rules, check.call.action, resources[i]) = "ask"}

AnswerIsRules ==
  LET resources == permissionTarget(check.call)
      count == Len(resources)
      told == IF check.denied = None THEN "allowed or asked" ELSE "denied"
  IN check.call # None /\ check.done =>
       /\ told = "denied" <=>
            \E i \in 1..count : Says(check.rules, check.call.action, resources[i]) = "deny"
       /\ told # "denied" =>
            /\ Len(check.asks) = Cardinality(Asking(resources, count))
            /\ \A i \in Asking(resources, count) :
                 check.asks[Cardinality(Asking(resources, i))] = resources[i]

RulesDecide == MatcherIsRight /\ AnswerIsRules
=============================================================================
