---------------------------- MODULE Compliance ----------------------------
(***************************************************************************)
(* The compliance evaluator of Bind Plane.  Every fifteen seconds one pass *)
(* deletes the results of pairs (switch, rule) that no longer apply,       *)
(* resolves the alerts nothing justifies any more, selects the pairs whose *)
(* result is missing or stale, and stores a result and then settles an     *)
(* alert for each.  Every statement commits by itself, so backups, edits   *)
(* and failures come between any two of them.                              *)
(***************************************************************************)
EXTENDS Integers, Sequences, FiniteSets

CONSTANTS
    Switches, Rules,
    Texts,       \* configurations
    Unreadable,  \* those that cannot be decrypted
    Patterns,    \* the patterns rules use, each the set of texts it is found in
    Scopes,      \* the switches a vendor and a group restrict a rule to
    Nothing,
    MaxBackups, MaxEdits, MaxFailures  \* bounds on what happens around the evaluator

Modes == {"must_contain", "must_not_contain"}
Pairs == Switches \X Rules

ASSUME ComplianceConstants ==
    /\ MaxBackups \in Nat /\ MaxEdits \in Nat /\ MaxFailures \in Nat
    /\ Patterns \subseteq SUBSET Texts /\ Unreadable \subseteq Texts
    /\ Scopes \subseteq SUBSET Switches
    /\ Nothing \notin [backup : Nat, version : Nat, passed : BOOLEAN]  \* no result

VARIABLES
    enabled,  \* bp_switches.is_enabled
    rule,     \* bp_compliance_rules
    backups,  \* bp_config_backups, by id
    result,   \* bp_compliance_results, by pair
    alert,    \* the active compliance alert of a pair
    pc, work, item, passed,  \* evaluateCompliance
    edits, failures

evaluator == <<pc, work, item, passed>>
complianceVars == <<enabled, rule, backups, result, alert, evaluator, edits, failures>>

RuleRows == [version : Nat, pattern : Patterns, mode : Modes, critical : BOOLEAN,
             enabled : BOOLEAN, scope : Scopes]
NoRule == [version |-> 0, pattern |-> {}, mode |-> "must_contain", critical |-> FALSE,
           enabled |-> FALSE, scope |-> {}]  \* a rule that was not created yet
Work == [pair : Pairs, backup : Nat, version : Nat,
         pattern : Patterns, mode : Modes, critical : BOOLEAN]

\* Both sides of a pair are enabled, and vendor and group of the rule match.
Applies(p) == enabled[p[1]] /\ rule[p[2]].enabled /\ p[1] \in rule[p[2]].scope

\* Mutant: every version counts as the latest.
IsAnyBackup(s, b) == backups[b].switch = s

\* DISTINCT ON (switch_id) ... ORDER BY captured_at DESC, id DESC
IsLatestBackup(s, b) ==
    /\ backups[b].switch = s
    /\ \A c \in DOMAIN backups : backups[c].switch = s => c <= b

\* Mutant: the mode is ignored.
EvaluateContains(pattern, mode, t) == t \in pattern

\* evaluateRule
EvaluateRule(pattern, mode, t) == (mode = "must_contain") = (t \in pattern)

\* Mutant: a configuration that cannot be decrypted stays undecided.
VerdictOrNull(pattern, mode, t) ==
    IF t \in Unreadable THEN Nothing ELSE EvaluateRule(pattern, mode, t)

\* A configuration that cannot be decrypted passes nothing.
Verdict(pattern, mode, t) == t \notin Unreadable /\ EvaluateRule(pattern, mode, t)

FailsCritically(p) ==
    result[p] # Nothing /\ ~result[p].passed /\ rule[p[2]].critical

-----------------------------------------------------------------------------
(***************************************************************************)
(* What happens around the evaluator.                                      *)
(***************************************************************************)

\* back_up stores a version that differs from the one before it.
NewBackup(s, t) ==
    /\ Len(backups) < MaxBackups
    /\ \A b \in DOMAIN backups : IsLatestBackup(s, b) => backups[b].text # t
    /\ backups' = Append(backups, [switch |-> s, text |-> t])
    /\ UNCHANGED <<enabled, rule, result, alert, evaluator, edits, failures>>

\* The column values an administrator may give a rule.
NewRule(version) ==
    [version : {version}, pattern : Patterns, mode : Modes, critical : BOOLEAN,
     enabled : BOOLEAN, scope : Scopes]

\* createRule
CreateRule(r) ==
    /\ rule[r].version = 0
    /\ \E row \in NewRule(1) : rule' = [rule EXCEPT ![r] = row]
    /\ UNCHANGED <<enabled, backups, result, alert, evaluator, edits, failures>>

\* editRule: a change takes the next version.
EditRule(r) ==
    /\ rule[r].version > 0
    /\ edits < MaxEdits
    /\ \E row \in NewRule(rule[r].version + 1) :
         /\ [row EXCEPT !.version = rule[r].version] # rule[r]
         /\ rule' = [rule EXCEPT ![r] = row]
    /\ edits' = edits + 1
    /\ UNCHANGED <<enabled, backups, result, alert, evaluator, failures>>

EditSwitch(s) ==
    /\ edits < MaxEdits
    /\ enabled' = [enabled EXCEPT ![s] = ~@]
    /\ edits' = edits + 1
    /\ UNCHANGED <<rule, backups, result, alert, evaluator, failures>>

Acknowledge(p) ==
    /\ alert[p] = "open"
    /\ alert' = [alert EXCEPT ![p] = "acknowledged"]
    /\ UNCHANGED <<enabled, rule, backups, result, evaluator, edits, failures>>

-----------------------------------------------------------------------------
(***************************************************************************)
(* evaluateCompliance.                                                     *)
(***************************************************************************)

DeleteResults ==
    /\ pc = "idle"
    /\ result' = [p \in Pairs |-> IF Applies(p) THEN result[p] ELSE Nothing]
    /\ pc' = "deleted"
    /\ UNCHANGED <<enabled, rule, backups, alert, work, item, passed, edits, failures>>

\* Mutant: only the result of the rule's current version justifies an alert.
ResolveOutdatedAlerts ==
    /\ pc = "deleted"
    /\ alert' = [p \in Pairs |->
         IF FailsCritically(p) /\ result[p].version = rule[p[2]].version
         THEN alert[p] ELSE "none"]
    /\ pc' = "resolved"
    /\ UNCHANGED <<enabled, rule, backups, result, work, item, passed, edits, failures>>

\* Mutant: nothing is resolved before the evaluation.
ResolveNoAlerts ==
    /\ pc = "deleted"
    /\ pc' = "resolved"
    /\ UNCHANGED <<enabled, rule, backups, result, alert, work, item, passed, edits, failures>>

ResolveAlerts ==
    /\ pc = "deleted"
    /\ alert' = [p \in Pairs |-> IF FailsCritically(p) THEN alert[p] ELSE "none"]
    /\ pc' = "resolved"
    /\ UNCHANGED <<enabled, rule, backups, result, work, item, passed, edits, failures>>

\* Mutant: a new rule version does not make a result stale.
StaleBackup(p, b) == result[p] = Nothing \/ result[p].backup # b

\* WHERE r.switch_id IS NULL OR r.backup_id<>l.id OR r.rule_version<>ru.version
Stale(p, b) ==
    result[p] = Nothing \/ result[p].backup # b \/ result[p].version # rule[p[2]].version

SelectWork ==
    LET todo == {x \in Pairs \X DOMAIN backups :
                   Applies(x[1]) /\ IsLatestBackup(x[1][1], x[2]) /\ Stale(x[1], x[2])}
    IN /\ pc = "resolved"
       /\ work' = {[pair |-> x[1], backup |-> x[2], version |-> rule[x[1][2]].version,
                    pattern |-> rule[x[1][2]].pattern, mode |-> rule[x[1][2]].mode,
                    critical |-> rule[x[1][2]].critical] : x \in todo}
       /\ pc' = IF todo = {} THEN "idle" ELSE "result"
       /\ UNCHANGED <<enabled, rule, backups, result, alert, item, passed, edits, failures>>

\* The pairs of the pass in order of their backup; what the select read is what counts.
StoreResult ==
    /\ pc = "result"
    /\ \E x \in work :
         /\ \A y \in work : x.backup <= y.backup
         /\ item' = x
         /\ work' = work \ {x}
         /\ passed' = Verdict(x.pattern, x.mode, backups[x.backup].text)
         /\ result' = [result EXCEPT ![x.pair] =
              [backup |-> x.backup, version |-> x.version, passed |-> passed']]
    /\ pc' = "alert"
    /\ UNCHANGED <<enabled, rule, backups, alert, edits, failures>>

\* Mutant: an alert that was acknowledged is opened again.
UpsertReopens(p) == alert' = [alert EXCEPT ![p] = "open"]

\* upsertAlert: an active alert keeps its status.
UpsertAlert(p) == alert' = [alert EXCEPT ![p] = IF @ = "none" THEN "open" ELSE @]

\* resolveAlert
ResolveAlert(p) == alert' = [alert EXCEPT ![p] = "none"]

\* Mutant: only a pass settles the alert.
SettlePassed ==
    /\ pc = "alert"
    /\ IF item.critical /\ passed THEN ResolveAlert(item.pair) ELSE UNCHANGED alert
    /\ item' = Nothing /\ passed' = FALSE
    /\ pc' = IF work = {} THEN "idle" ELSE "result"
    /\ UNCHANGED <<enabled, rule, backups, result, work, edits, failures>>

SettleAlert ==
    /\ pc = "alert"
    /\ \/ item.critical /\ ~passed /\ UpsertAlert(item.pair)
       \/ item.critical /\ passed /\ ResolveAlert(item.pair)
       \/ ~item.critical /\ UNCHANGED alert
    /\ item' = Nothing /\ passed' = FALSE
    /\ pc' = IF work = {} THEN "idle" ELSE "result"
    /\ UNCHANGED <<enabled, rule, backups, result, work, edits, failures>>

\* A statement fails, or the API process stops: the pass is abandoned and the next one
\* starts from the beginning.
Abandon ==
    /\ pc # "idle"
    /\ failures < MaxFailures
    /\ failures' = failures + 1
    /\ pc' = "idle" /\ work' = {} /\ item' = Nothing /\ passed' = FALSE
    /\ UNCHANGED <<enabled, rule, backups, result, alert, edits>>

-----------------------------------------------------------------------------
ComplianceInit ==
    /\ enabled = [s \in Switches |-> TRUE]
    /\ rule = [r \in Rules |-> NoRule]
    /\ backups = <<>>
    /\ result = [p \in Pairs |-> Nothing]
    /\ alert = [p \in Pairs |-> "none"]
    /\ pc = "idle" /\ work = {} /\ item = Nothing /\ passed = FALSE
    /\ edits = 0 /\ failures = 0

Evaluate ==
    DeleteResults \/ ResolveAlerts \/ SelectWork \/ StoreResult \/ SettleAlert

Environment ==
    \/ \E s \in Switches, t \in Texts : NewBackup(s, t)
    \/ \E r \in Rules : CreateRule(r) \/ EditRule(r)
    \/ \E s \in Switches : EditSwitch(s)
    \/ \E p \in Pairs : Acknowledge(p)

ComplianceNext == Evaluate \/ Environment \/ Abandon

ComplianceSpec == ComplianceInit /\ [][ComplianceNext]_complianceVars

\* RunComplianceEvaluator starts a pass every fifteen seconds and a pass always goes on.
ComplianceLiveSpec == ComplianceSpec /\ WF_complianceVars(Evaluate)

-----------------------------------------------------------------------------
(***************************************************************************)
(* Correctness.  The bounds make the environment stop at some point, so    *)
(* <>[] speaks of what the evaluator reaches once it is left alone.        *)
(***************************************************************************)

Results == [backup : Nat, version : Nat, passed : BOOLEAN]

\* Every table and local variable holds a value of its type.
ComplianceTypeOK ==
    /\ enabled \in [Switches -> BOOLEAN]
    /\ rule \in [Rules -> RuleRows \cup {NoRule}]
    /\ backups \in Seq([switch : Switches, text : Texts])
    /\ result \in [Pairs -> Results \cup {Nothing}]
    /\ alert \in [Pairs -> {"none", "open", "acknowledged"}]
    /\ pc \in {"idle", "deleted", "resolved", "result", "alert"}
    /\ work \subseteq Work
    /\ item \in Work \cup {Nothing}
    /\ passed \in BOOLEAN

\* The truth an administrator expects to see about a pair that applies.
CurrentVerdict(p) ==
    \E b \in DOMAIN backups :
      /\ IsLatestBackup(p[1], b)
      /\ rule[p[2]].mode = "must_contain" <=> backups[b].text \in rule[p[2]].pattern
      /\ backups[b].text \notin Unreadable

HasBackup(s) == \E b \in DOMAIN backups : backups[b].switch = s

Violates(p) == Applies(p) /\ rule[p[2]].critical /\ HasBackup(p[1]) /\ ~CurrentVerdict(p)

\* Left alone, the evaluator ends up with a result for exactly the pairs that apply, each
\* saying whether the current rule holds of the latest configuration, whatever edits,
\* backups and failures came between its statements.
ResultsConverge ==
    <>[](\A p \in Pairs :
           IF Applies(p) /\ HasBackup(p[1])
           THEN result[p] # Nothing /\ (result[p].passed <=> CurrentVerdict(p))
           ELSE result[p] = Nothing)

\* Alerts resolve themselves when their cause clears: none stays for a pair that does not
\* violate a critical rule, also when a pass failed half-way or used an edited rule.
AlertsClear == <>[](\A p \in Pairs : alert[p] # "none" => Violates(p))

\* Critical compliance failures raise alerts.
CriticalFailuresAlert == <>[](\A p \in Pairs : Violates(p) => alert[p] # "none")

\* The same as long as no pass of evaluateCompliance fails between its statements: whatever
\* was edited or backed up during a pass, a later one raises what is missing.
AlertsUnlessInterrupted ==
    <>[](failures = 0 => \A p \in Pairs : Violates(p) => alert[p] # "none")

\* An alert is never resolved while the recorded result still fails a critical rule.
ResolvedOnlyWhenCleared ==
    [][\A p \in Pairs : alert[p] # "none" /\ alert'[p] = "none" => ~FailsCritically(p)']_complianceVars

\* A result that names the rule's present version says what that version says of the backup
\* the result names, although the rule and the backups went on changing between the
\* statement that selected the pair and the one that stored its result.
ResultsTrue ==
    \A p \in Pairs :
      result[p] # Nothing /\ result[p].version = rule[p[2]].version
      => LET t == backups[result[p].backup].text
         IN result[p].passed <=>
              t \notin Unreadable /\ (rule[p[2]].mode = "must_contain" <=> t \in rule[p[2]].pattern)

\* A result is never replaced by one of an older backup or rule version.
ResultsNeverRegress ==
    [][\A p \in Pairs : result[p] # Nothing /\ result'[p] # Nothing =>
         result[p].backup <= result'[p].backup /\ result[p].version <= result'[p].version]_complianceVars

\* An acknowledgement holds until the alert is resolved.
AcknowledgedUntilResolved ==
    [][\A p \in Pairs : alert[p] = "acknowledged" => alert'[p] # "open"]_complianceVars

\* Whatever is edited, backed up or abandoned between the statements of a pass: results are
\* true of what they name and never go back, an alert stays until its result is clear, and
\* keeps its acknowledgement.
ComplianceKept ==
    []ResultsTrue /\ ResultsNeverRegress /\ ResolvedOnlyWhenCleared /\ AcknowledgedUntilResolved
=============================================================================
