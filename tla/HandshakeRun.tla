---------------------------- MODULE HandshakeRun ----------------------------
(***************************************************************************)
(* The cases a harness script runs one after another with hs_run()         *)
(* (harness/lib/handshake.sh): start a responder, wait for its socket, run *)
(* a client at it, clean up; with, in tamper.sh and run_validator.sh, a    *)
(* tamper proxy started before and waited for afterwards.                  *)
(*                                                                         *)
(* All the responders want one TCP port and all the proxies another.  The  *)
(* processes are external; the script sees of them what kill -0, ss, wait  *)
(* and an exit status tell.  RunInit, RunNext and RunSpec are named apart  *)
(* from those of Arms, with which HandshakeProofs extends both.            *)
(***************************************************************************)
EXTENDS Naturals

CONSTANTS
    MaxCases,       \* bound: cases, over the scripts of one sitting
    Scripts         \* the scripts: [proxied, traps, sees]

Cases == 1 .. MaxCases
None == 0           \* an empty HS_RESPONDER_PID; a port nobody holds

\* traps: what the script's EXIT trap cleans up.  capture.sh and run_pair.sh
\* set none, tamper.sh traps the proxy and run_validator.sh both.  sees: ss or
\* netstat is there to tell who listens.
ASSUME ScriptsAssumption ==
    Scripts \subseteq [proxied : BOOLEAN, traps : SUBSET {"proxy", "responder"},
                       sees : BOOLEAN]
ASSUME MaxCasesAssumption == MaxCases \in Nat

VARIABLES
    script,         \* the script that is running
    pc,             \* where: "idle", "proxy", "enter", "await", "client", "join"
    cur,            \* its case, or the last one before it
    pid,            \* HS_RESPONDER_PID: the case whose responder it names
    rsp,            \* the responder of each case: "none", "starting",
                    \* "listening", "dead"
    port,           \* the case whose responder holds HS_PORT
    proxied,        \* the cases run through a proxy
    proxy,          \* the current one: "none", "starting", "listening",
                    \* "serving", "gone"
    served,         \* the case whose client the proxy serves
    client,         \* the client of each case: "none", "starting", "talking",
                    \* "ended"
    status,         \* what hs_run returned: "none", "exit" (the client's own),
                    \* "90", "91"; or "killed": the script ended first
    spoke           \* history: the responder each client spoke to

runVars == <<script, pc, cur, pid, rsp, port, proxied, proxy, served, client,
             status, spoke>>
proxyVars == <<proxied, proxy, served>>

Alive(i) == rsp[i] \in {"starting", "listening"}

RunInit ==
    /\ script \in Scripts
    /\ pc = "idle" /\ cur = 0 /\ pid = None
    /\ rsp = [i \in Cases |-> "none"] /\ port = None
    /\ proxied = {} /\ proxy = "none" /\ served = None
    /\ client = [i \in Cases |-> "none"]
    /\ status = [i \in Cases |-> "none"]
    /\ spoke = [i \in Cases |-> None]

\* The process of responder i is no more, and neither is its socket.
Kill(i) ==
    /\ rsp' = IF i = None THEN rsp ELSE [rsp EXCEPT ![i] = "dead"]
    /\ port' = IF port = i THEN None ELSE port

-----------------------------------------------------------------------------
(* The script.                                                             *)

StartCase ==
    /\ pc = "idle" /\ cur < MaxCases
    /\ cur' = cur + 1
    /\ IF script.proxied
       THEN proxied' = proxied \cup {cur'} /\ proxy' = "starting" /\ pc' = "proxy"
       ELSE UNCHANGED <<proxied, proxy>> /\ pc' = "enter"
    /\ UNCHANGED <<script, pid, rsp, port, served, client, status, spoke>>

\* proxy_wait_listening() sees the port.
ProxyReady ==
    /\ pc = "proxy" /\ proxy = "listening"
    /\ pc' = "enter"
    /\ UNCHANGED <<script, cur, pid, rsp, port, proxyVars, client, status, spoke>>

\* The script ends before its case does: killed, or by a die() of its own; the
\* EXIT trap cleans up what it names.  Another script may follow.
EndScript ==
    /\ pc' = "idle" /\ script' \in Scripts
    /\ proxy' = IF "proxy" \in script.traps THEN "none" ELSE proxy
    /\ IF "responder" \in script.traps THEN Kill(pid) ELSE UNCHANGED <<rsp, port>>
    /\ pid' = None
    /\ status' = IF status[cur] = "none" THEN [status EXCEPT ![cur] = "killed"]
                 ELSE status
    /\ UNCHANGED <<cur, proxied, served, client, spoke>>

\* The proxy died, or ten seconds have passed without its socket.
ProxyNever == pc = "proxy" /\ proxy # "listening" /\ EndScript

Killed == pc # "idle" /\ EndScript

\* cd "$bin" fails, and nothing has been started.
EnterFails ==
    /\ pc = "enter"
    /\ status' = [status EXCEPT ![cur] = "90"]
    /\ pc' = "join"
    /\ UNCHANGED <<script, cur, pid, rsp, port, proxyVars, client, spoke>>

EnterForgetsPid ==
    /\ pc = "enter"
    /\ rsp' = [rsp EXCEPT ![cur] = "starting"] /\ pid' = pid
    /\ pc' = "await"
    /\ UNCHANGED <<script, cur, port, proxyVars, client, status, spoke>>

Enter ==
    /\ pc = "enter"
    /\ rsp' = [rsp EXCEPT ![cur] = "starting"] /\ pid' = cur
    /\ pc' = "await"
    /\ UNCHANGED <<script, cur, port, proxyVars, client, status, spoke>>

\* One turn of hs_wait_for_responder(): the process lives and the port has a
\* listener, its own or another, or three seconds have passed where nothing
\* tells; the client is started.
Listening ==
    /\ pc = "await" /\ rsp[cur] # "dead" /\ (script.sees => port # None)
    /\ client' = [client EXCEPT ![cur] = "starting"]
    /\ pc' = "client"
    /\ UNCHANGED <<script, cur, pid, rsp, port, proxyVars, status, spoke>>

\* The responder died, or ten seconds have passed without a listener.
NeverListening ==
    /\ pc = "await" /\ (rsp[cur] = "dead" \/ (script.sees /\ port = None))
    /\ pid' = None
    /\ status' = [status EXCEPT ![cur] = "91"]
    /\ pc' = "join"
    /\ UNCHANGED <<script, cur, rsp, port, proxyVars, client, spoke>>

\* The client has ended; three seconds' grace, and hs_cleanup().
CleanupForgets ==
    /\ pc = "client" /\ client[cur] = "ended"
    /\ UNCHANGED <<rsp, port>> /\ pid' = None
    /\ status' = [status EXCEPT ![cur] = "exit"]
    /\ pc' = "join"
    /\ UNCHANGED <<script, cur, proxyVars, client, spoke>>

Cleanup ==
    /\ pc = "client" /\ client[cur] = "ended"
    /\ Kill(pid) /\ pid' = None
    /\ status' = [status EXCEPT ![cur] = "exit"]
    /\ pc' = "join"
    /\ UNCHANGED <<script, cur, proxyVars, client, spoke>>

\* wait "$PROXY_PID", and the case is over.
Join ==
    /\ pc = "join" /\ proxy \in {"none", "gone"}
    /\ proxy' = "none"
    /\ pc' = "idle"
    /\ UNCHANGED <<script, cur, pid, rsp, port, proxied, served, client, status, spoke>>

-----------------------------------------------------------------------------
(* The processes it starts (external).                                     *)

\* bind() fails while another responder holds the port.
RspBinds(i) ==
    /\ rsp[i] = "starting"
    /\ IF port = None THEN port' = i /\ rsp' = [rsp EXCEPT ![i] = "listening"]
       ELSE port' = port /\ rsp' = [rsp EXCEPT ![i] = "dead"]
    /\ UNCHANGED <<script, pc, cur, pid, proxyVars, client, status, spoke>>

RspDies(i) ==
    /\ Alive(i) /\ Kill(i)
    /\ UNCHANGED <<script, pc, cur, pid, proxyVars, client, status, spoke>>

\* A new proxy's port is free: the one before it has been waited for or killed.
ProxyMoves ==
    /\ proxy = "starting" /\ proxy' \in {"listening", "gone"}
    /\ UNCHANGED <<script, pc, cur, pid, rsp, port, proxied, served, client, status,
                   spoke>>

\* --once: the proxy exits when its one conversation has ended.
ProxyAcceptsAgain ==
    /\ proxy = "serving" /\ client[served] = "ended"
    /\ proxy' = "listening"
    /\ UNCHANGED <<script, pc, cur, pid, rsp, port, proxied, served, client, status,
                   spoke>>

ProxyExits ==
    /\ proxy = "serving" /\ client[served] = "ended"
    /\ proxy' = "gone"
    /\ UNCHANGED <<script, pc, cur, pid, rsp, port, proxied, served, client, status,
                   spoke>>

\* A client connects, through the proxy if its case has one, to whichever
\* responder holds the port; if there is no way through it ends.
ClientConnectsUnserved(i) ==
    /\ client[i] = "starting"
    /\ spoke' = [spoke EXCEPT ![i] = port]
    /\ client' = [client EXCEPT ![i] = IF port = None THEN "ended" ELSE "talking"]
    /\ IF i \in proxied /\ proxy = "listening"
       THEN proxy' = "serving" /\ UNCHANGED served ELSE UNCHANGED <<proxy, served>>
    /\ UNCHANGED <<script, pc, cur, pid, rsp, port, proxied, status>>

ClientConnects(i) ==
    /\ client[i] = "starting"
    /\ LET through == i \notin proxied \/ proxy = "listening"
           peer == IF through THEN port ELSE None
       IN /\ spoke' = [spoke EXCEPT ![i] = peer]
          /\ client' = [client EXCEPT ![i] = IF peer = None THEN "ended" ELSE "talking"]
    /\ IF i \in proxied /\ proxy = "listening"
       THEN proxy' = "serving" /\ served' = i ELSE UNCHANGED <<proxy, served>>
    /\ UNCHANGED <<script, pc, cur, pid, rsp, port, proxied, status>>

\* It may end at any time: of itself, before it ever connects (a flag of its
\* own it rejects) or after, or by timeout(1).
ClientEnds(i) ==
    /\ client[i] \in {"starting", "talking"}
    /\ client' = [client EXCEPT ![i] = "ended"]
    /\ UNCHANGED <<script, pc, cur, pid, rsp, port, proxyVars, status, spoke>>

\* The requester shuts its responder down and ends.
ClientShutsDown(i) ==
    /\ client[i] = "talking" /\ rsp[spoke[i]] = "listening"
    /\ Kill(spoke[i])
    /\ client' = [client EXCEPT ![i] = "ended"]
    /\ UNCHANGED <<script, pc, cur, pid, proxyVars, status, spoke>>

-----------------------------------------------------------------------------
ScriptStep == StartCase \/ ProxyReady \/ ProxyNever \/ EnterFails \/ Enter
              \/ Listening \/ NeverListening \/ Cleanup \/ Join
ClientStep(i) == ClientConnects(i) \/ ClientEnds(i) \/ ClientShutsDown(i)

RunNext ==
    \/ ScriptStep \/ Killed
    \/ ProxyMoves \/ ProxyExits
    \/ \E i \in Cases : RspBinds(i) \/ RspDies(i) \/ ClientStep(i)

RunSpec == RunInit /\ [][RunNext]_runVars

\* The script is scheduled, its loops count tenths of a second, timeout(1)
\* ends a client that does not, and a proxy whose conversation is over exits.
FairSpec ==
    /\ RunSpec
    /\ WF_runVars(ScriptStep) /\ WF_runVars(ProxyExits)
    /\ \A i \in Cases : WF_runVars(ClientStep(i))

-----------------------------------------------------------------------------
(* Properties.                                                             *)

TypeOK ==
    /\ script \in Scripts
    /\ pc \in {"idle", "proxy", "enter", "await", "client", "join"}
    /\ cur \in 0 .. MaxCases /\ (pc # "idle" => cur # 0)
    /\ pid \in Cases \cup {None} /\ port \in Cases \cup {None}
    /\ rsp \in [Cases -> {"none", "starting", "listening", "dead"}]
    /\ proxy \in {"none", "starting", "listening", "serving", "gone"}
    /\ proxied \subseteq Cases /\ served \in Cases \cup {None}
    /\ (proxy = "serving" => served # None)
    /\ client \in [Cases -> {"none", "starting", "talking", "ended"}]
    /\ status \in [Cases -> {"none", "exit", "90", "91", "killed"}]
    /\ spoke \in [Cases -> Cases \cup {None}]

\* A responder that outlives its case is one that was too slow to listen, or
\* one whose script was killed and traps no cleanup.  All the others are
\* stopped, whatever became of their clients.
OrphansAreKnown ==
    \A i \in Cases : Alive(i) /\ i # pid =>
        status[i] = "91" \/ status[i] = "killed"

\* The capture of a case that hs_run saw to its end is of that case's own
\* responder, with its flags and fixture, unless an earlier case has left a
\* responder behind: evidence of two cases is never mixed otherwise.
EvidenceIsOwn ==
    \A i \in Cases : status[i] = "exit" /\ spoke[i] \notin {None, i} =>
        spoke[i] < i /\ status[spoke[i]] \in {"91", "killed"}

\* What both rest on: the port's holder is listening; HS_RESPONDER_PID names the
\* current case's responder until hs_run returns; cases get their status in
\* turn; and a client at large belongs to the current case or a killed one.
RunInv ==
    /\ \A i \in Cases : rsp[i] = "listening" <=> port = i
    /\ pid # None <=> pc \in {"await", "client"}
    /\ pid # None => pid = cur
    /\ pc \in {"proxy", "enter"} => rsp[cur] = "none"
    /\ \A i \in Cases :
         /\ rsp[i] # "none" => i <= cur
         /\ status[i] # "none" => i < cur \/ (i = cur /\ pc \in {"join", "idle"})
         /\ client[i] \in {"starting", "talking"} =>
              status[i] = "killed" \/ (i = cur /\ pc = "client")

\* The same of a case still running: whatever its client has reached is known.
EvidenceInv ==
    \A i \in Cases : status[i] # "killed" /\ spoke[i] \notin {None, i} =>
        spoke[i] < i /\ status[spoke[i]] \in {"91", "killed"}

RunIInv == TypeOK /\ RunInv /\ OrphansAreKnown /\ EvidenceInv

\* run_validator.sh: with --once, a connection that was made is waited out: a
\* case whose client has reached the proxy or the responder ends.
ConnectedCaseEnds ==
    (pc = "client" /\ spoke[cur] # None) ~> pc = "idle"

\* The head of handshake.sh: the sequence is to "make sure nothing is left
\* holding the port".
NothingLeftHoldingPort ==
    pc = "idle" /\ port # None => status[port] = "killed"

\* tamper.sh: --once "exits when the connection closes and its exit status is
\* available to be read", and "a case is not judged without it".
EveryCaseEnds == pc # "idle" ~> pc = "idle"
=============================================================================
