----------------------------- MODULE Advisories -----------------------------
(***************************************************************************)
(* harness/check_advisories.py: a verdict per flavor and advisory, put     *)
(* together from recorded evidence, the check of the document that states  *)
(* the verdicts, and the weekly comparison of the pinned advisories with   *)
(* those published.                                                        *)
(*                                                                         *)
(* A committed capture is [readable, responder, flags]: whether its fields *)
(* can be read, whether they name a responder, and the bits it advertised  *)
(* (or NoList).                                                            *)
(***************************************************************************)
EXTENDS Integers, FiniteSets, Sequences

NoList == {"not a list"}
Assessed == {"0001", "0002", "0003"}
Needs == [a \in {"0001", "0002"} |-> IF a = "0001" THEN {"CSR"} ELSE {"MEL", "CHUNK"}]

\* responder_flags, captures_with_all: a capture that names no responder has no
\* flags to ask, and the question raises.
Raises(captures) == \E c \in captures : c.readable /\ ~c.responder
Counted(captures) == {c \in captures : c.readable /\ c.flags # NoList}
CapturesWithAll(captures, bits) ==
    Cardinality({c \in Counted(captures) : bits \subseteq c.flags})

\* fix_state: is the fix in this tree, by the source and by upstream's ancestry.
Known == {"ahead", "identical", "behind", "diverged"}
Included == {"ahead", "identical"}
ByLine(ev) == IF ev.fixed = ev.defective THEN "unknown"
              ELSE IF ev.fixed THEN "present" ELSE "absent"
ByAncestry(ev) ==
    IF {ev.ancestry[i] : i \in 1 .. 2} \cap Known = {} THEN "unknown"
    ELSE IF {ev.ancestry[i] : i \in 1 .. 2} \cap Included # {} THEN "present" ELSE "absent"

FixStateByLine(ev) ==
    IF ByLine(ev) # "unknown" THEN ByLine(ev)
    ELSE IF ByAncestry(ev) = "unknown" THEN "indeterminate" ELSE ByAncestry(ev)

FixState(ev) ==
    LET routes == {ByLine(ev), ByAncestry(ev)} \ {"unknown"} IN
    IF routes = {} THEN "indeterminate"
    ELSE IF Cardinality(routes) = 2 THEN "disagreement"
    ELSE CHOOSE r \in routes : TRUE

\* verdict_for: why a defect that is present is not reached in this build.
Blocked(advisory, build, captures) ==
    \/ CapturesWithAll(captures, Needs[advisory]) = 0
    \/ advisory = "0001" /\ ~build.mbedtls
    \/ advisory = "0002" /\ ~(build.assertEmpty /\ build.copyGoesOn)

VerdictFor(advisory, ev, build, captures) ==
    LET state == FixState(ev) IN
    IF advisory = "0003" THEN "NOT-APPLICABLE"
    ELSE IF state = "disagreement" THEN "DISAGREEMENT"
    ELSE IF state = "indeterminate" THEN "INDETERMINATE"
    ELSE IF state = "present" THEN "NOT-AFFECTED"
    ELSE IF Blocked(advisory, build, captures) THEN "PRESENT-NOT-REACHABLE"
    ELSE "AFFECTED"

\* all_verdicts, for one flavor; an exposure is [evidence, build].
AllVerdicts(exposure, captures) ==
    [a \in Assessed |->
       VerdictFor(a, IF a = "0003" THEN exposure.evidence["0001"] ELSE exposure.evidence[a],
                  exposure.build, captures)]

\* cmd_check: a document is [names, says]: whether it names the run, and the
\* advisories and verdicts it states.
CmdCheck(doc, exposure, captures) ==
    IF /\ doc.names /\ ~Raises(captures) /\ doc.says # {}
       /\ \A s \in doc.says : s[1] \in Assessed /\ AllVerdicts(exposure, captures)[s[1]] = s[2]
    THEN 0 ELSE 1

-----------------------------------------------------------------------------
(* --refresh.  An attempt meets the network as it is: "list", "object" for *)
(* what is not a list, "quota" for an anonymous caller turned away,        *)
(* "error" for anything else.                                              *)

Refusals == {"unauthorized", "forbidden"}

\* What an attempt is answered, with a token or without.
Answered(met, sent, token) ==
    IF met = "error" THEN "error"
    ELSE IF sent /\ token = "bad" THEN "unauthorized"
    ELSE IF met = "quota" THEN IF sent THEN "list" ELSE "forbidden"
    ELSE met

\* fetch_advisories: whether each attempt sends the token.
SentAlways(attempts, token) == [k \in DOMAIN attempts |-> token # "none"]
Sent(attempts, token) ==
    LET sent[k \in DOMAIN attempts] ==
          IF k = 1 THEN token # "none"
          ELSE sent[k - 1] /\ Answered(attempts[k - 1], TRUE, token) \notin Refusals
    IN sent
Fetched(attempts, token) ==
    \E k \in DOMAIN attempts :
      Answered(attempts[k], Sent(attempts, token)[k], token) = "list"

\* cmd_refresh: pins and published are functions of the advisory, with the digest
\* pinned and when, and the digest now and the date of publication.
OldestPinTakenLast(pins) ==
    CHOOSE t \in {pins[a].taken : a \in DOMAIN pins} : \A a \in DOMAIN pins : pins[a].taken <= t
OldestPin(pins) ==
    CHOOSE t \in {pins[a].taken : a \in DOMAIN pins} : \A a \in DOMAIN pins : t <= pins[a].taken
Newer(pins, published) ==
    {a \in DOMAIN published \ DOMAIN pins :
       DOMAIN pins = {} \/ published[a].date >= OldestPin(pins)}

CmdRefresh(attempts, token, pins, published) ==
    IF ~Fetched(attempts, token)
    THEN [exit |-> 2, gone |-> {}, drift |-> {}, new |-> {}]
    ELSE [exit  |-> IF Newer(pins, published) = {} THEN 0 ELSE 3,
          gone  |-> DOMAIN pins \ DOMAIN published,
          drift |-> {a \in DOMAIN pins \cap DOMAIN published :
                       pins[a].digest # published[a].digest},
          new   |-> Newer(pins, published)]
=============================================================================
