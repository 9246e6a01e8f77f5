-------------------------------- MODULE Gates --------------------------------
(***************************************************************************)
(* What keeps the repository's published verdicts true: the pull-request   *)
(* gate re-derives the appraisal matrix (rats/appraise.py matrix --check)  *)
(* and the advisory verdicts (harness/check_advisories.py --check) and     *)
(* checks the certificate chain (certs/check_chain.py), and the weekly job *)
(* compares the pinned advisories with the published ones.  Between them   *)
(* somebody edits: the policy, the reference, the captures, the committed  *)
(* verdicts and what is expected of them, the evidence, the document, the  *)
(* pins, the files of the chain.                                           *)
(***************************************************************************)
EXTENDS Advisories, CertificateChain

CONSTANTS
    ArmCount,       \* arms of the capture run, in the order of their names
    Kinds,          \* what each arm's capture holds
    Policies, References,
    Captures,       \* the captures check_advisories may find committed
    Observations,   \* of one advisory's source: [fixed, defective, failed]
    Builds,         \* what it may record of the binary
    Ghsa,           \* the advisories there can be
    Lookups,        \* what the three attempts may meet when not all meet the list
    Budgets         \* edits and faults of one behaviour, by what is edited in it

Arms == 1 .. ArmCount
Scenes == {"appraisal", "evidence", "advisories", "chain"}
ASSUME GatesAssumption ==
    /\ ArmCount \in Nat /\ Budgets \in [Scenes -> Nat] /\ Kinds \in [Arms -> STRING]
    /\ \A o \in Observations : o.fixed \in BOOLEAN /\ o.defective \in BOOLEAN

VARIABLES
    run,            \* the arms whose captures are there
    policy, reference,
    committed,      \* the committed verdicts, by arm
    expect,         \* the expected outcomes, by arm, or NoFile
    tree,           \* which of the two fixes the pinned tree has
    exposure,       \* the recorded evidence, and the tree it was taken from
    captures, doc,
    published, pins, token,
    files,          \* certs/out: what each file of the chain holds
    gate,           \* how the gate ended on the files as they are
    greens,         \* history: the expectations and outcomes of green gates
    told,           \* the weekly job's last report
    scene,          \* what this behaviour edits
    now, spent
matrixVars == <<run, policy, reference, committed, expect>>
watchVars == <<tree, exposure, captures, doc>>
refreshVars == <<published, pins, told>>
vars == <<matrixVars, watchVars, refreshVars, token, files, gate, greens, scene, now, spent>>

NoFile == 0 :> [outcome |-> "no file", blockedBy |-> {}]

-----------------------------------------------------------------------------
(* rats/appraise.py: the matrix.  The appraisal itself is in Attestation;  *)
(* here a policy is what it makes of each kind of capture.                 *)

\* run_opa: what the policy says of a capture, or that opa refuses it.
RunOpa(p, kind) ==
    IF p = "broken" THEN [outcome |-> "no-evidence", failed |-> {}]
    ELSE IF p = "open" \/ kind = "meets" THEN [outcome |-> "pass", failed |-> {}]
    ELSE [outcome |-> "fail", failed |-> {IF kind = "older" THEN "svn" ELSE "digests"}]

\* matrix: one row per arm.  A refusal is a row too; a reference whose payload
\* cannot be decoded raises out of the loop.
RowRaises(arm) == Kinds[arm] # "none" /\ reference = "undecodable"
Row(arm) ==
    IF Kinds[arm] = "none" THEN [outcome |-> "no-evidence", failed |-> {}, why |-> "capture"]
    ELSE IF reference = "spoiled"
      THEN [outcome |-> "no-evidence", failed |-> {}, why |-> "signature"]
    ELSE [why |-> policy] @@ RunOpa(policy, Kinds[arm])
MatrixRaises == \E arm \in run : RowRaises(arm)
Rows == [arm \in run |-> Row(arm)]

\* _matrix_cmd --check: what fails of the committed verdicts, and of the outcomes
\* when there is a file of expectations.
VerdictFailures ==
    {arm \in run : arm \notin DOMAIN committed \/ committed[arm] # Row(arm)}
      \cup (DOMAIN committed \ run)
Unmet(arm) ==
    \/ arm \notin run
    \/ Row(arm).outcome # expect[arm].outcome
    \/ expect[arm].blockedBy # {} /\ Row(arm).failed # expect[arm].blockedBy
ExpectedFailuresOfTheExpected ==
    IF expect = NoFile THEN {} ELSE {arm \in DOMAIN expect : Unmet(arm)}
ExpectedFailures ==
    IF expect = NoFile THEN {}
    ELSE {arm \in DOMAIN expect : Unmet(arm)} \cup (run \ DOMAIN expect)
MatrixCmd == IF MatrixRaises \/ VerdictFailures # {} \/ ExpectedFailures # {} THEN 1 ELSE 0

-----------------------------------------------------------------------------
(* The pull-request gate and the weekly job.                               *)

\* The committed chain stands, and only its own scene edits it.
ChainStands == scene = "chain" => SelfTest(Directory(files)) = 0
Verify ==
    /\ gate = "not run"
    /\ LET green == CmdCheck(doc, exposure, captures) = 0 /\ MatrixCmd = 0 /\ ChainStands IN
       /\ gate' = IF green THEN "green" ELSE "red"
       /\ greens' = IF green THEN greens \cup {[expect |-> expect, rows |-> Rows]} ELSE greens
    /\ UNCHANGED <<matrixVars, watchVars, refreshVars, token, files, scene, now, spent>>

Weekly(attempts) ==
    /\ told' = CmdRefresh(attempts, token, pins, published)
    /\ UNCHANGED <<matrixVars, watchVars, published, pins, token, files, gate, greens, scene, now>>
Spend(what) == scene = what /\ spent < Budgets[what] /\ spent' = spent + 1
WeeklyReads == Weekly(<<"list", "list", "list">>) /\ UNCHANGED spent
WeeklyMeets == Spend("advisories") /\ \E met \in Lookups : Weekly(met)

-----------------------------------------------------------------------------
(* What people do.                                                         *)

Edit(what) == Spend(what) /\ now' = now + 1 /\ UNCHANGED <<scene, token>>
EditsMatrix ==
    Edit("appraisal") /\ gate' = "not run" /\ UNCHANGED <<watchVars, refreshVars, files, greens>>
EditsWatch ==
    Edit("evidence") /\ gate' = "not run" /\ UNCHANGED <<matrixVars, refreshVars, files, greens>>
EditsPins ==
    Edit("advisories") /\ UNCHANGED <<matrixVars, watchVars, files, told, gate, greens>>
EditsChain ==
    Edit("chain") /\ gate' = "not run" /\ UNCHANGED <<matrixVars, watchVars, refreshVars, greens>>

ChangePolicy == EditsMatrix /\ policy' \in Policies /\ UNCHANGED <<run, reference, committed, expect>>
ChangeReference ==
    EditsMatrix /\ reference' \in References /\ UNCHANGED <<run, policy, committed, expect>>
ChangeRun ==
    /\ EditsMatrix /\ \E arm \in Arms : run' \in {run \cup {arm}, run \ {arm}}
    /\ UNCHANGED <<policy, reference, committed, expect>>

\* matrix without --check: the verdicts are written over those there, up to the
\* arm that raises.
Written == {arm \in run : \A b \in run : RowRaises(b) => arm < b}
CommitVerdicts ==
    /\ EditsMatrix /\ committed' = [arm \in Written |-> Row(arm)] @@ committed
    /\ UNCHANGED <<run, policy, reference, expect>>
RemoveVerdict ==
    /\ EditsMatrix
    /\ \E arm \in DOMAIN committed : committed' = Restrict(committed, DOMAIN committed \ {arm})
    /\ UNCHANGED <<run, policy, reference, expect>>
StateExpectation ==
    /\ EditsMatrix
    /\ \/ expect' = NoFile
       \/ /\ expect # NoFile
          /\ \E arm \in Arms, o \in {"pass", "fail", "no-evidence"} :
               \E b \in IF o = "fail" THEN {{}, {"digests"}, {"svn"}} ELSE {{}} :
                 expect' = (arm :> [outcome |-> o, blockedBy |-> b]) @@ expect
       \/ /\ expect # NoFile
          /\ \E arm \in DOMAIN expect : expect' = Restrict(expect, DOMAIN expect \ {arm})
    /\ UNCHANGED <<run, policy, reference, committed>>

\* run_exposure.sh: the source is looked at and upstream is asked of each of the
\* two fixes; a question may fail, and the line looked for may have moved.
Evidence(o, t) ==
    [fixed |-> o.fixed, defective |-> o.defective,
     ancestry |-> [i \in 1 .. 2 |-> IF i \in o.failed THEN "query-failed"
                                   ELSE IF t[i] THEN "ahead" ELSE "diverged"]]
Plain(t) == [fixed |-> t[1] \/ t[2], defective |-> ~t[1] /\ ~t[2], failed |-> {}]
RunExposure ==
    /\ EditsWatch
    /\ \E a \in {"0001", "0002"}, o \in Observations, build \in Builds :
         /\ a = "0001" => ~(o.fixed /\ o.defective)
         /\ exposure' = [tree |-> tree, build |-> build,
              evidence |-> [x \in {"0001", "0002"} |->
                              Evidence(IF x = a THEN o ELSE Plain(tree), tree)]]
    /\ UNCHANGED <<tree, captures, doc>>
RePin == EditsWatch /\ tree' \in [1 .. 2 -> BOOLEAN] /\ UNCHANGED <<exposure, captures, doc>>
CommitCapture ==
    /\ EditsWatch /\ \E c \in Captures : captures' \in {captures \cup {c}, captures \ {c}}
    /\ UNCHANGED <<tree, exposure, doc>>
Verdicts ==
    {"DISAGREEMENT", "INDETERMINATE", "AFFECTED", "PRESENT-NOT-REACHABLE", "NOT-AFFECTED", "NOT-APPLICABLE"}
WriteDoc ==
    /\ EditsWatch
    /\ \/ doc' = [doc EXCEPT !.names = ~@]
       \/ \E s \in doc.says : doc' = [doc EXCEPT !.says = @ \ {s}]
       \/ \E a \in Assessed, v \in Verdicts :
            doc' = [doc EXCEPT !.says = {s \in @ : s[1] # a} \cup {<<a, v>>}]
    /\ UNCHANGED <<tree, exposure, captures>>

\* gen_chain.sh, to its end or not; one file replaced, by another generation's or by
\* a copy that is not intact; and a bundle put together by hand.
MakeChain ==
    EditsChain /\ \E gen \in Generations, steps \in 1 .. 10 : files' = GenChain(files, gen, steps)
ReplaceFile ==
    /\ EditsChain
    /\ \E stem \in Range(Stems), gen \in Generations, part \in Parts :
         LET file == [File(stem, gen) EXCEPT !.part = part] IN
         files' \in {[files EXCEPT !.pem[stem] = file], [files EXCEPT !.der[stem] = file]}
Rebundle ==
    /\ EditsChain
    /\ \E leaf \in Leaves, pick \in {<<1, 2, 3>>, <<2, 1, 3>>, <<1, 3>>} :
         files' = [files EXCEPT !.bundle[leaf] =
                     [k \in DOMAIN pick |-> Bundled(files, leaf)[pick[k]]]]

\* The pin file of an advisory is written, or written again.
Pin ==
    /\ EditsPins
    /\ \E a \in DOMAIN published :
         pins' = (a :> [digest |-> published[a].digest, taken |-> now]) @@ pins
    /\ UNCHANGED published

\* Upstream publishes an advisory, edits one, or takes one back.
Upstream ==
    /\ EditsPins
    /\ \/ \E a \in Ghsa \ DOMAIN published :
            published' = (a :> [digest |-> now, date |-> now]) @@ published
       \/ \E a \in DOMAIN published : published' = [published EXCEPT ![a].digest = now]
       \/ \E a \in DOMAIN published :
            published' = Restrict(published, DOMAIN published \ {a})
    /\ UNCHANGED pins

-----------------------------------------------------------------------------
\* The repository as it is committed: a tree with a fix, its verdicts, three arms
\* and what they must be; three advisories of which one is deliberately unpinned.
Init ==
    /\ run = Arms /\ policy = "floor" /\ reference = "signed"
    /\ committed = Rows
    /\ expect = [arm \in Arms |-> [outcome |-> Row(arm).outcome, blockedBy |-> Row(arm).failed]]
    /\ tree = [i \in 1 .. 2 |-> i = 1]
    /\ exposure = [tree |-> tree, build |-> CHOOSE b \in Builds : TRUE,
                   evidence |-> [a \in {"0001", "0002"} |-> Evidence(Plain(tree), tree)]]
    /\ captures = {}
    /\ doc = [names |-> TRUE, says |-> {<<"0002", "NOT-AFFECTED">>}]
    /\ published = [a \in {"left", "pinned"} |-> [digest |-> 0, date |-> 0]]
    /\ pins = [a \in {"pinned"} |-> [digest |-> 0, taken |-> 1]]
    /\ files = [pem |-> [s \in Range(Stems) |-> File(s, 1)],
                der |-> [s \in Range(Stems) |-> File(s, 1)],
                bundle |-> [leaf \in Leaves |-> [k \in 1 .. 3 |-> File(BundleOf(leaf)[k], 1)]]]
    /\ scene \in Scenes
    /\ token \in IF scene = "advisories" THEN {"none", "good", "bad"} ELSE {"none"}
    /\ gate = "not run" /\ greens = {}
    /\ told = [exit |-> 0, gone |-> {}, drift |-> {}, new |-> {}]
    /\ now = 2 /\ spent = 0

Next ==
    \/ Verify \/ WeeklyReads \/ WeeklyMeets
    \/ ChangePolicy \/ ChangeReference \/ ChangeRun
    \/ CommitVerdicts \/ RemoveVerdict \/ StateExpectation
    \/ RunExposure \/ RePin \/ CommitCapture \/ WriteDoc
    \/ Pin \/ Upstream \/ MakeChain \/ ReplaceFile \/ Rebundle

\* The job runs every week, and from some week on the list can be read.
Spec == Init /\ [][Next]_vars /\ WF_vars(WeeklyReads)

-----------------------------------------------------------------------------
\* The outcomes a green gate let pass move only with the expectations: two green
\* gates under the same ones had the same arms, and each arm the same outcome,
\* blocked by the same checks where the file says by which (appraise.py:
\* _matrix_cmd, "a new arm arrives unchecked").
OutcomesHold ==
    \A g, h \in greens :
      g.expect = h.expect /\ g.expect # NoFile =>
        /\ DOMAIN g.rows = DOMAIN h.rows
        /\ \A arm \in DOMAIN g.rows \cap DOMAIN h.rows :
             /\ g.rows[arm].outcome = h.rows[arm].outcome
             /\ arm \in DOMAIN g.expect /\ g.expect[arm].blockedBy # {}
                  => g.rows[arm].failed = h.rows[arm].failed

\* A verdict the gate lets the document state is true of the tree its evidence was
\* taken from, unless two things went wrong in that evidence: upstream was asked
\* of both fixes and answered, or the source shows one line and the right one
\* (check_advisories.py: fix_state, "a single route that is wrong looks exactly
\* like one that is right").
DecidedRightly ==
    gate = "green" =>
      \A s \in {x \in doc.says : x[1] # "0003"} :
        LET ev == exposure.evidence[s[1]]
            hasFix == exposure.tree[1] \/ exposure.tree[2]
            asked == "query-failed" \notin {ev.ancestry[1], ev.ancestry[2]}
            seen == ev.fixed = hasFix /\ ev.defective = ~hasFix
        IN asked \/ seen =>
             /\ s[2] = "NOT-AFFECTED" => hasFix
             /\ s[2] \in {"AFFECTED", "PRESENT-NOT-REACHABLE"} => ~hasFix

\* A chain the gate lets pass, whose two files of each certificate are the same,
\* is one a reader of its bundles can follow from the root to the leaf: nothing of
\* another generation, out of order or changed is served (check_chain.py: check,
\* "the chain is well formed and links to its root"; gen_chain.sh stopped half way).
Followed(leaf) ==
    LET found == Locate(Directory(files), Directory(files).bundle[leaf]) IN
    /\ Ok(found) /\ Len(found.certificates) = 3
    /\ \A k \in 2 .. 3 : Links(found.certificates)[k]
ChainIsFollowed ==
    scene = "chain" /\ gate = "green" /\ files.pem = files.der => \A leaf \in Leaves : Followed(leaf)

\* What the sources say without that condition.
GreenChainIsFollowed ==
    scene = "chain" /\ gate = "green" => \A leaf \in Leaves : Followed(leaf)

\* The change of the byte --locate names, in the bundle of a chain that passes,
\* leaves every certificate's place, contents and encoding as they were, breaks that
\* certificate's signature and no other, and there is an intermediate to change
\* (check_chain.py: "One link, one reason"; tamper.sh, the t3_cert case).
FlipBreaksOneLink ==
    scene = "chain" /\ gate = "green" =>
      \A leaf \in Leaves :
        LET dir == Directory(files)
            served == dir.bundle[leaf]
            before == Locate(dir, served)
            tampered(k) == Locate(dir, FlipLow(served, before.certificates[k].flip))
            shape(found) == [k \in DOMAIN found.certificates |->
                               LET c == found.certificates[k] IN
                               <<c.at, c.bytes, c.ecdsa, Decoded(c.der).tbs>>]
        IN Ok(before) =>
             /\ \E k \in 1 .. 3 : before.certificates[k].name = "inter"
             /\ \A k \in 1 .. 3 :
                  /\ shape(tampered(k)) = shape(before)
                  /\ Links(tampered(k).certificates)
                       = [Links(before.certificates) EXCEPT ![k] = FALSE]

\* Why: the rows of a green gate are those its expectations name, as they name
\* them; and while a gate is green the document is what its evidence says, which
\* is of the tree it was taken from as far as upstream answered.
GreensInv ==
    \A g \in greens : g.expect # NoFile =>
      /\ DOMAIN g.rows = DOMAIN g.expect
      /\ \A arm \in DOMAIN g.rows :
           /\ g.rows[arm].outcome = g.expect[arm].outcome
           /\ g.expect[arm].blockedBy # {} => g.rows[arm].failed = g.expect[arm].blockedBy
EvidenceIsOf(ev, t) ==
    /\ ev.fixed \in BOOLEAN /\ ev.defective \in BOOLEAN
    /\ \A i \in 1 .. 2 : ev.ancestry[i] \in {"query-failed", IF t[i] THEN "ahead" ELSE "diverged"}
WatchInv ==
    /\ tree \in [1 .. 2 -> BOOLEAN] /\ exposure.tree \in [1 .. 2 -> BOOLEAN]
    /\ \A a \in {"0001", "0002"} : EvidenceIsOf(exposure.evidence[a], exposure.tree)
    /\ gate = "green" => CmdCheck(doc, exposure, captures) = 0
\* And while a gate is green that ran over the chain, there is no problem with the
\* files, which are files gen_chain.sh makes.
ChainInv ==
    /\ files.pem \in [Range(Stems) -> FileNames] /\ files.der \in [Range(Stems) -> FileNames]
    /\ scene = "chain" /\ gate = "green" => Problems(Directory(files)) = <<>>
IInv == GreensInv /\ WatchInv /\ ChainInv

\* An advisory published after some pin was taken, and that has none, is reported
\* by the weekly job, whatever befell its token and its attempts before, and for
\* as long as it has none (check_advisories.py: fetch_advisories, cmd_refresh).
Unlooked(a) ==
    /\ a \in DOMAIN published \ DOMAIN pins
    /\ \E p \in DOMAIN pins : pins[p].taken <= published[a].date
NewIsReported == \A a \in Ghsa : Unlooked(a) ~> (a \in told.new \/ ~Unlooked(a))
=============================================================================
