# mctp-spdm-pqc: formal models

TLA+ modules that model the parts of this repository that have state, order and
failure; TLC configurations that check them on small instances; and theorems,
checked by TLAPS, that state the most important results for every value of the
constants. Paths are relative to the repository's root unless they are names of
modules here.

Check a configuration with `tlc -config X.cfg MCModule.tla`, and the proofs of a
module with `tlapm ModuleProofs.tla`. `PROJECT.json` lists the runs, the source
lines each definition stands for, the hazards and the theorems.

## 1. The system

The repository measures what post-quantum algorithms cost SPDM (the protocol with
which a platform asks a device for its identity and measurements), over an
emulated transport and over the kernel's MCTP stack. SPDM itself is libspdm and
its two emulators, `spdm_requester_emu` and `spdm_responder_emu`, fetched and
built, not part of the repository. The repository's own code is what surrounds
them:

| component | where | state | operations | behaviour that is hard |
|---|---|---|---|---|
| MCTP bridge pair | `transport/mctp_bridge.c` | two processes: a TCP connection, two MCTP sockets, counters | read a frame, send a request, wait, write the reply; and the mirror | lost messages, timeouts against late answers, expiring tags, EOF inside a frame, shutdown of both |
| MCTP replay and sink | same file | sequence of lengths sent, counts | send a message of each length, answer with the length reassembled | loss in the middle of a message |
| link capture | `harness/mctp_capture.py` | packet socket, counters, ready and stop file | capture until told, refuse a lossy capture | counters and packets read at different moments |
| fragmentation model | `bench/exp04_fragmentation.py` | an open message per flow | predict packets and chunks, group captured packets | two-bit sequence numbers, lost packets, boundaries |
| guest link measurement | `harness/run_afmctp.sh`, `harness/vm_guest_init.sh` | processes of one arm | per arm: capture, bridges, emulators, reconcile | an arm that fails and the arms after it |
| tamper proxy | `harness/tamper_proxy.py` | what the conversation has taught it, the report | forward, observe, change one bit once | stale knowledge, order and repetition of messages, lying lengths |
| handshake runner | `harness/lib/handshake.sh`, used by `tamper.sh`, `run_validator.sh`, `capture.sh`, `run_pair.sh` | `HS_RESPONDER_PID`, a port, processes | start, wait, run, clean up | slow starters, a port held by another, kills, waiting on each other |
| paired arms | `harness/run_pair.sh`, `harness/lib/arms.sh`, `check_negotiated.py` | an arm's directory, the flag arrays of the shell | run every arm, compare what was declared with what was negotiated | flags left from the last arm, a build that ignores one, a decode cut short |
| tamper case verdicts | `harness/tamper.sh` | a case's files | conclude from capture, log and report | missing and contradicting evidence |
| measurement source | `device/measurement_source.c`, `meas-from-file.patch` | the loaded image and its table | load once, answer by index | a file that changes, faults in the middle of a table, wrapping sums |
| fixture generator | `device/gen_measurements.py` | the file | build, change one byte, read back | a change of the table and not of a value |
| capture statistics | `bench/pcapstat.py`, `harness/pcapcount.py` | open chunk transfer, open chain | reassemble chunks and chains, read the negotiation | chunks that end early or restart, fetches that interleave |
| decode fields | `harness/fields.py`, `spdm_status.py` | none | read a decoder's text and the bytes beside it | bytes that fit two layouts, requests that were not captured |
| challenge verification | `harness/challenge_verify.py` | transcript | rebuild and verify | which messages belong to a transcript |
| RATS appraisal | `rats/appraise.py`, `cose.py`, `policy*.rego` | reference, committed verdicts | endorse, read evidence, decide | order of refusals, encodings, rollback of versions |
| DOE probe | `transport/doe_probe.c` | mailbox | discovery and exchange | a device that never finishes |
| certificate chains | `certs/` | files | generate, check, self-test, locate a byte | a generator stopped half way, chains of two generations mixed |
| provenance | `harness/lib/provenance.sh`, `_manifest.py` | run directory | open, record, seal | files written after they were hashed |
| advisory and upstream watch | `harness/check_advisories.py` and others | pins, evidence | look up, retry, compare, decide | the last attempt failing, one of two routes wrong |
| repository checks | `harness/verify_repo.sh` and others | the committed files | re-derive and compare | an edit that moves a verdict and what is compared with it |
| the rest | session drivers, negative tests, C exercises, builds, reports | | | |

How they meet: the emulators speak a framed socket protocol (command, transport,
size, payload). The bridge pair carries those frames over MCTP, in the guest
whose set-up is `run_afmctp.sh`'s; `mctp_capture.py` listens on the same link and
`exp04_fragmentation.py` reconciles its file with what the arithmetic predicts.
On the host, `hs_run()` starts the two emulators on one TCP port; `tamper.sh` puts
the proxy between them, judges each case and hands the evidence to the appraisal;
the responder's measurements come from the file that the generator writes and the
measurement source reads, and its certificates from `certs/out`. `run_pair.sh` runs
one handshake per arm and keeps a capture of each. From a capture, `pcapstat.py`
reads bytes and `fields.py` a decoder's text, and the two are held against each
other; `challenge_verify.py` and `appraise.py` conclude from them. What is concluded is
committed, and `verify_repo.sh` and a weekly job derive it again.

What makes each right:

- *bridge*: between its TCP ends it is an unmodified socket; it never has two
  exchanges under way; type 0x05 carries SPDM and nothing else; an exit status
  of 0 accounts for every frame; a shutdown ends both; it never hangs.
- *capture and fragmentation*: a capture that is accepted holds every packet of
  the measured exchange, and packets grouped by the analysis are the messages
  sent, or the loss is reported.
- *proxy*: at most one byte of one message changes, the one that was asked for,
  and the exit status says whether.
- *runner*: no responder outlives its case, each capture is of its own
  responder, each case ends.
- *measurement source*: it answers out of one sound file or not at all.
- *decoding*: what is put together was sent, whole; what is placed was written
  there; two readers of one capture agree.
- *appraisal*: a pass is about this device and the signed reference, a good device
  passes, a failing verdict is about the device.
- *challenge verification*: the transcript judged is the one signed.
- *arms*: a row says what its capture carried.
- *gates*: a green gate means what it meant when its expectations were written; the
  chain it lets pass leads to its root.

The hazards behind these, each at its line, are in `PROJECT.json`.

## 2. Modules

    DirectLink          what the bridge pair promises: one socket, one exchange
      ^ implemented by
    MctpBridge          both bridges, both kernels' message layer, the link,
                        both emulators
    MctpBridgeProofs    EXTENDS MctpBridge

    Recursion           lemmas: induction on a number, recursive functions,
                        folds over a sequence, flattened sequences

    Measurements        operators: how a MEASUREMENTS response is laid out,
                        refused, changed; and what a responder writes
    TamperProxy         EXTENDS Measurements: the proxy between two peers
    TamperProxyProofs   EXTENDS TamperProxy and Recursion

    HandshakeRun        cases of scripts over shared ports

    MeasurementSource   the loader and its accessors

    Packets             operators: a message's packets, and the grouping of a
                        capture's packets into messages
    LinkCapture         EXTENDS Packets: script, replay, link, sink and capture
    LinkCaptureProofs   EXTENDS LinkCapture and Recursion

    Fixture             EXTENDS MeasurementSource: the generator beside the loader
    MeasurementSourceProofs  EXTENDS Fixture and Recursion: loader and generator

    CaptureStatistics   operators: pcapstat.py's reassembly and cross-check
    DecodeFields        operators: fields.py's reading of a decoder's text
    CapturedConversation  INSTANCEs both, over the capture of a conversation
    CapturedConversationProofs  EXTENDS CapturedConversation and Recursion

    Cose                operators: CBOR, ECDSA encodings, COSE_Sign1
    Corim               EXTENDS Cose: evidence, reference values, policies
    Layout              operators: the layouts fields.py rebuilds from bytes
    Attestation         EXTENDS Corim, INSTANCEs Layout: device, capture,
                        reference, appraisal

    ChallengeVerify     operators: transcripts and what is said of a signature
    Challenge           INSTANCEs ChallengeVerify and Layout

    Negotiation         operators: four readings of a negotiation
    Arms                EXTENDS Negotiation: the loop over the arms
    HandshakeProofs     EXTENDS Arms, HandshakeRun, Challenge and Recursion

    Advisories          operators: the verdicts of check_advisories.py
    CertificateChain    operators: check_chain.py and what openssl makes
    Gates               EXTENDS both: edits, the pull-request gate, the weekly job
    GatesProofs         EXTENDS Gates and Recursion

Each `MCx` module names the sets of frames, files, scripts or command lines that
the `.cfg` files give to TLC. Operators in a specification that no action uses
(`ReqForwardStreaming`, `FinishUnlessRefused`, `RangeOkWrapping` ...) are variants of the
definition after them with one plausible mistake; `PROJECT.json` pairs each with
the property that the mistake breaks, so that each property is known to depend
on the code it is about.

### 2.1 MctpBridge

State. `rqPc` and `rsPc` are the places where the two processes can stop:
`accept()`, `frame_read()` and `mctp_wait()` in `role_requester`, `tcp_connect()`, `poll()` and
`frame_read()` in `role_responder`; "ok" and "died" are their exit statuses. A TCP
direction is the sequence of frames written (`sent`, `rep`, `fwd`, `ans`) with the
reader's position. `keys` is the kernel's table of tags, `rxA` and `rxB` the receive
queues of the two bound sockets of each side, `link` the messages on the wire.

Actions. `ReqForward` is one turn of the requester's loop from `frame_read` to the
`sendto`: validity checks, type by command, type byte stripped or command word
put in front, counter. `ReqReceive` is the rest of the turn: `mctp_wait`'s choice
of socket, the refusals (`Refused`), the frame rebuilt and written, and the end at
SHUTDOWN. `RspForward` and `RspReply` are the same halves of the responder's.
`ReqTimeout`, `ReqEof`, `...Dies` are the other ways out, each with the exit status
the code gives it. `die()` for reasons outside the model (a failed syscall) may
happen where the code can call it.

Abstractions. A payload is a short sequence of numbers whose first is the type
byte. The two command words that mean something to the bridge keep their values.
`BufMax` = 3 stands for `BUF_MAX`. `Window` is how many frames the requester emulator
writes ahead of the replies: the real one writes none, and the run allows one
more so that the bridge's own waiting is what keeps exchanges apart. `MaxFrames`
bounds a conversation.

The kernel is external. What is assumed of it: a request is given a tag, on which
its key is held until the reply is accepted, the key expires or the socket closes;
a request is delivered to the socket bound to its type, and a reply to the socket that
holds its tag's key, whatever its type; anything may be lost; and messages overtake
each other.

The responder answers a command with the same command or with UNKNOWN (`Answers`), which
is what the bridge's comment on `mctp_wait` says of it. An UNKNOWN that answers a NORMAL
request therefore arrives on the SPDM socket, and `role_requester` reads it as SPDM.
`Handed` says what the emulator then gets. Two instances of `DirectLink` say it of the
pair: with `Seen` the answer as it was sent (`RelayIsDirect`, which the code's comments
claim and the run `bridge_unknown` refutes), and with `Seen` the answer as it is handed
over (`RelayAsAsked`, which holds).

### 2.2 Measurements and TamperProxy

`Measurements` translates `walk_record`, `parse_measurements`, `apply_tamper`'s choice of a
byte and the two observers. A message is its bytes; only those with meaning to the
proxy (count, three lengths, block headers) have values. The walk is a recursive
function, and the layout closes when the blocks tile the record exactly and what
is left at the end is as long as the negotiated signature.

`TamperProxy` is `run()`, `serve_one()` and `_handle()`: accept, `select()`, one frame read,
observed, perhaps changed, sent on; the two ways a conversation ends; `--once`;
`finish()` and its exit status; SIGINT and `OSError` wherever the code blocks. The
peers are external: the requester waits for its replies, a frame may arrive in
pieces, either may close at any moment. `Honest` is the independent description of
a truthful response, and `TrueTarget` of where the byte asked for is, computed from
the structure and never from the bytes; `FlipLandsWhereAsked` compares the two. The
report (`applied`) and the wire are two pieces of state: `changed` has the frames that
were *sent* other than they came, and `out` is the frame in hand between
`on_responder_frame` and `sendall`, where a SIGINT may fall.

### 2.3 HandshakeRun

`hs_run()` one return at a time: 90 (cannot enter the directory), 91 (no listener
seen), or the client's status after `hs_cleanup`. Around it `StartCase` starts the
proxy for scripts that use one and `Join` is `wait "$PROXY_PID"`. Responders,
clients and the proxy are external processes with the states the script can see
from outside, sharing a port that has one holder. `hs_wait_for_responder` asks whether *anyone*
listens (`ss -ltn` or `netstat`), not whether its own child does: `Listening` has that
guard. Where there is neither tool (`sees` is FALSE) it sleeps three seconds and says yes.
`EndScript` is a kill or a `die`, with what the script's EXIT trap cleans up (`traps`),
and another script may follow on the same machine.

### 2.4 MeasurementSource

`Load` is `ms_load` with its checks in the code's order, and what `fail()` leaves
behind: the slots filled before the fault and the version number. `Ensure` is the
load-once rule of the accessors, and `Answer` the length check of `ms_block`. A file
is its size, header and descriptors. `Word` is 2^32, the width in which the C adds
offset and length; any value above the two caps will do, and a small one lets TLC
reach the wrap.

### 2.5 Packets and LinkCapture

`Packets` has the packet count of a message (`mctp_packets`) and the grouping
(`group_mctp_messages`) as a recursive function of one step per packet, `GroupPacket`: a first
packet opens a message on its key and a last one closes it; a sequence number out
of turn is a complaint and not an end. `Reproduced` is the condition under which
`--observed` exits 0.

`LinkCapture` is the calibration of `run_afmctp.sh`: three processes of the
repository and the script that starts them. `orc` is the script's place: the
capture is started, `wait_ready` polls the ready file, replay runs, the stop file is
touched, the capture is waited for. `cap` is `mctp_capture.py`'s place, one value per
step that another process can fall between: bound, first reading made, ready file
written, file open, loop, drain, loop left, drop counter read, socket closed, last
reading and refusals. `rp` is `role_replay`'s. Of the packets only their place in
`wire` is kept in the socket's queue and in the file, so that "captured" and "crossed
the interface" are sets of the same thing.

The kernels and the link are external: a message becomes packets numbered modulo
four, any packet may be lost after the tap has seen it, the receiving kernel gives
up a message whose numbers do not follow (and so accepts one that lost four packets
in a row), the tap's queue has `RcvBuf` places, and up to `Strays` late packets of an earlier
exchange may cross at any moment.

Abstractions: the counters of sent and received packets are one reading; the check of the
first packet's header is left out, as all packets of the model are well formed; the
sidecar's fields are the variables that the analysis reads. The script does not look
at the capture's exit status, but the host repeats its comparison on the sidecar
(`Reproduced`).

### 2.6 Fixture

`Fixture` puts the generator beside `MeasurementSource`. There a file is what the loader
sees of it; here it is bytes, and `FileOfBytes` is the step between the two. `Build`,
`Parse` and `InValue` are `build`, `parse` and `locate`; `Generate` is `main`: build, change the byte
asked for, refuse one outside every value unless forced, *write*, read back. The
manifest it takes its blocks from is two blocks of two bytes, and the widths of the
header and of a descriptor are the format's. `made` is a history variable.

### 2.7 CapturedConversation

The environment is the two emulators: a requester that fetches a chain portion by
portion and asks for signed answers, and a responder that answers with LargeResponse
and chunks when an answer exceeds `Dts`. The tap may lose a packet or keep it short, and the
emulators may start again. A message is its
name, size and the fields a walk reads; a chunk carries which part of which message
it is, so that "put together rightly" can be said of the result.

`CaptureStatistics` is `dechunk`, `certificates`, `chunk_roundtrips`, `validate` and `cross_check`,
each loop as a recursive function with one step per packet (`Dechunk1`, `Certificate1`); `DecodeFields` is the
chain and chunk part of `extract()` over the lines `spdm_dump` prints, which stop at a chain
that has grown past its buffer (`MaxCertChain`). Every state is a capture somebody may have
stopped there, and the properties are of every state. Bytes in the middle of a
chain are assumed never to look like a chain's Length field.

### 2.8 Layout, Cose, Corim, Attestation

`Layout` is the part of `fields.py` that works on bytes: which request a response answers
(`RequestBefore`), the equations of CERTIFICATE, DIGESTS, CHALLENGE_AUTH and MEASUREMENTS,
and `Settle`, which believes a layout only when exactly one closes. `Cose` is the encoder,
the decoder with its refusals, the two encodings of a signature and `verify1`; a signature is
external: `openssl` verifies what the model's key signed and nothing else. `Corim` is
`evidence`, the reference document as JSON and as CBOR, and both rules of the policy.

`Attestation` is the device, whose blocks are replaced by an update; a capture of
its answers with or without context, opaque data, signature, chunking, the request
or ALGORITHMS; a reference published from some blocks, signed by the trusted key or
another, possibly not a document, possibly spoiled afterwards; and `Appraise`, the refusals of
`appraise()` in the code's order and its exit status. Bytes, not structures, pass from
device to verdict, so that a misplaced field is appraised as what it then holds.

### 2.9 ChallengeVerify and Challenge

`ChallengeVerify` is `segments`, `certificate_chains`, `leaf_certificate`, `build` with its refusals, `analyse`
and `report`. Lengths of certificates are walked in both forms of DER; the
certificates of the environment use the one-byte form. `Challenge` is the environment: one or two connections, 1.1 or later, that fetch
chains by portions or leave them out, retrieve a certificate or not before a CHALLENGE
of either slot, end in ERROR, and lose one message to the tap. A signature is the
set of (key, M1M2, bytes) that were signed; a faulty responder signs something else.
The loops over messages (`Segments`, `Assembled`, `DerCertificates`, `APlaces`) are recursive functions with one
step named apart (`Segmented`, `Collected`, `Walked`, `Following`).

### 2.10 Negotiation and Arms

An algorithm selection is a number whose bits are the algorithms; bits without a
name are kept, as the tools keep them. `Algorithms` walks the response's tables by
bytes (`Walk`, one table a step by `NextTable`), `Fields` is the reading through `spdm_dump`, `CheckNegotiated` holds the second against an arm's
declaration and `CrossCheck` holds the two against each other. `Arms` is the loop of
`run_pair.sh`: the arm's flags put on both command lines (`RspArr` cleared per arm), `hs_run` as the
messages of one handshake, then the verdict. `ignored` is the set of flags a build does
not honour, at either end.

### 2.11 Advisories, CertificateChain, Gates

`Advisories` is `fix_state` with its two routes, `verdict_for`, `captures_with_all`, `cmd_check`,
`fetch_advisories` and `cmd_refresh`. `CertificateChain` is all of `check_chain.py`: the DER walkers, the five
sections of `check` with the problems in their order, the self-test and its four breaks,
`signature_span` and `locate`. It works on bytes. The certificates are written by an external
`Certificate`, which keeps of X.509 what something here reads (serial, names, key, extensions), and
`openssl` is external: it verifies issuer name and signature of the leaf and of the intermediate,
and not the root's own.

`Gates` is what happens to committed files between two checks. `Verify` is the gate on
a pull request: the document against the evidence, the matrix against committed
verdicts and expectations, the chain against its checker and its self-test.
`WeeklyReads` and `WeeklyMeets` are the weekly job when all three attempts can read the list and
when they meet errors, a quota or an answer that is no list. The other actions are
what people do: policy, reference, arms, verdicts, expectations, captures, evidence,
pins, the document, `gen_chain.sh` to its end or not, a file replaced, a bundle put together
by hand. The four *scenes* (appraisal, evidence, advisories, chain) touch disjoint files
and are explored one at a time: what a gate says of one does not depend on the
others, and their product would add nothing but states.

## 3. Runs

| run | states | what it shows |
|---|---|---|
| `bridge` | 1.0 M | over loss, expiry, timeouts, deaths and every malformed frame: one exchange at a time, control commands off the SPDM type, exit 0 accounts, shutdown ends both, and the pair implements `DirectLink`, with an answer of the other type read as one of the request's; and a requester bridge that waits stops waiting, and ends after its emulator has |
| `bridge_unknown` | violation | an UNKNOWN that answers a NORMAL request reaches the emulator as a NORMAL frame |
| `proxy` | 5.2 M | one changed frame sent, at the byte asked for, and an exit status that says so unless interrupted with it in hand, over two connections and the responses of the program's self-test |
| `handshake` | 0.8 M | three cases of every script, killed anywhere: who can be left behind, and whose evidence it can spoil; and a case whose client connected ends |
| `measurements` | 0.7 M | files with one fault or boundary each and files of the generator, changing between questions: one sound source, and a generated file is answered as asked |
| `capture` | 12 M | over loss, overflow, unreadable counters and a stray packet: an accepted capture is whole, its analysis lists what was replayed, and a replay that exits 0 was reassembled |
| `decoding` | 0.3 M | chunks and chains put together are those sent, the arithmetic reproduces the round trips, two readers agree |
| `attestation` | 0.2 M | placed is what was written; a pass, a good device and a failing verdict mean what the docs say |
| `challenge` | 0.8 M | the transcript judged is the one signed, the leaf is the slot's, fields are where they were sent |
| `arms` | 5.6 M | an arm as declared carried what it declared and ran with the flags on its record |
| `arms_mutual` | violation | the same of mutual authentication, without the condition that the decode is whole |
| `gates` | 0.4 M | outcomes move only with expectations, verdicts are true of the tree, a chain let pass can be followed, the flipped byte breaks one link, a new advisory is reported |

Why the bounds suffice. *Bridge*: the exchanges are alike, so a second one after a
first that timed out or expired is where they could mix, and a third is where a
SHUTDOWN follows two of them; two tags let a late reply meet a new key. *Proxy*:
two connections are needed for stale knowledge, and four requester frames for two
observations and two changes. *Runner*: an orphan, its victim, and a case after
both. *Source*: two changes, so that each of the three loads can see another file; `Word`
is 2^26, above both caps, so that the wrap is inside TLC's integers.
*Capture*: a message of one full packet and one of six, of which the four between can
be lost together; two messages, so that one key is used twice; a queue of two, so that
it fills while one packet is read; one stray. *Decoding*: the sizes lie on both sides
of one chunk, of two and of a last chunk of one byte (`Dts` = 42, answers of 42 and 57), two slots and a
portion smaller than a chain; five steps hold two fetches of which one is cut, two
lost packets a chunk missing between two that are not. *Attestation*: two responses,
so that one is stale or read against the other's request; four steps are publish,
sign, spoil or update, capture; signatures of two bytes per integer have the high bit,
the leading zero and both. *Challenge*: two connections, so that a chain is cached from the first;
a lost message anywhere. *Arms*: a post-quantum arm whose responder has no CHUNK and a classical one with a
size and no responder flags of its own, a selected algorithm without a name, all subsets of ignored flags. *Gates*: five edits of the appraisal, so that a
gate turns green, red and green again with something else edited between; three of
the evidence (tree, evidence, document); four of the pins (a pin, an advisory published,
taken back, published again), and two of the chain (one file or generation, then a bundle of it).

`CHECK_DEADLOCK FALSE` in all but `decoding` and `gates`: the other programs end (an exit
status, the last arm, an appraisal), and the bounds stop the counters.

Fairness. Assumed of the code's own processes only, and of two outside promises:
`poll` and `sleep` count time (so a timeout that is enabled for ever fires), and
`timeout(1)` ends a client. Nothing is assumed of the link, of the emulators' willingness
to continue, or of the user. `bridge` has no fairness on delivery, and `handshake` none
on the responder or the proxy's start. `gates` has weak fairness of `WeeklyReads`: the workflow is
scheduled every week, and from some week on the published list can be read; its
earlier weeks may all fail, with or without a token. Nobody is assumed to edit
anything. The other runs have no liveness property and no fairness.

## 4. Findings

Two findings have a run each.

- `bridge_unknown`: which socket is readable decides how `role_requester` reads a reply
  (`mctp_bridge.c:540`). A tagged reply comes to the socket that asked, so the case for which
  `mctp_wait` watches both sockets (the comment at 385) ends with the type byte in front of a
  command word, handed to the requester emulator as a NORMAL frame.
- `arms_mutual`: `check_negotiated.py` concludes from the absence of
  messages in `spdm_dump`'s text, and does not read `source.decode_truncated`, which `fields.py` puts
  beside it. `spdm_dump` stops at a certificate chain larger than its buffer, which every post-quantum arm
  has, so an encapsulated exchange that follows is absent from the text and the arm
  is "as-declared" (for instance `bench/data/w8-pqc-matrix-20260914T131557Z/P2-all.fields.json` has
  `decode_truncated` true). `AsDeclaredIsTrue` holds with the condition that the decode is whole.

Recorded counterexamples. These are not runs of the project; each property is violated in
the configuration named (`tlc -config X.cfg MCModule.tla`), or in a listed one changed as described:

1. `MctpBridgePartialFrame.cfg` (`MCMctpBridge`): `read_exact` returns the same at an EOF between frames
   and inside one (`mctp_bridge.c:259`), against its comment (196): a truncated conversation exits 0.
2. `TamperProxyInterrupted.cfg` (`MCTamperProxy`): the flip is recorded before the frame is sent, and
   `finish()` reads the record (`tamper_proxy.py:740`): interrupted in between, the proxy exits 0 and no changed
   frame was sent, against the docstring's "0 ok, 1 asked to tamper and did not" (82).
3. `TamperProxyRefused.cfg`: `finish()` returns 0 once a response was changed, whatever else was refused
   (752), against the docstring's "refuses to flip ... and exits non-zero" (49).
4. `TamperProxyStale.cfg`: `observe_algorithms` never clears the post-quantum selector
   (`tamper_proxy.py:307`), so a classical connection after another is refused as post-quantum.
5. `HandshakeRunOrphan.cfg` (`MCHandshakeRun`): `hs_run` abandons a slow responder on return 91
   without stopping it (`handshake.sh:212`, against line 11).
6. `EveryCaseEnds` in place of the properties of `HandshakeRun.cfg`, with `Scripts <- OnlyTamper`:
   `tamper.sh:466` waits without limit for a proxy no client ever reached.
7. `LossIsRefused` in place of the invariants of `LinkCapture.cfg`, with one length and no strays:
   `mctp_capture.py:348` takes a drop counter that could not be
   read for no drops, and interface counters likewise, against its comment on lossy captures.
8. `BlamedWhenFaulty` in place of the invariants of `Challenge.cfg`, with `Versions` = {17} and no message
   lost: `report()` counts a signature nobody could check (no chain of the
   slot) with those that do not verify, and names the responder as the cause (`challenge_verify.py:473`).
9. `GreenChainIsFollowed` in place of `ChainIsFollowed` in `Gates.cfg`: `check_chain.py` verifies
   the signatures of the `.cert` files, the bundles are made of the `.cert.der` files, and
   nothing compares the two. A `.cert.der` with a changed signature, or of another generation,
   bundled again, passes as "well formed and links to its root" (`check_chain.py:734`) while a reader of the
   bundle cannot follow it. All generations have the same names, so that only
   signatures tell them apart.

Observed while modelling, in the models, and contradicting no property above:

- `ExitMatchesWire` states what the proxy's exit status does mean: how many changed frames were
  sent, whatever was refused, but for an interrupt that leaves the changed frame in hand.
- `appraise.py` decodes the signed payload outside the `try` (523): a payload that is no CBOR
  ends in a traceback and exit 1, which its docs keep for verdicts on the device;
  `FailIsOfTheDevice` exempts it. In the matrix it aborts with the earlier arms' verdicts written.
- A MEASUREMENTS response put together from chunks has its carrier's packet number, so
  `read_capture` takes the wrong bytes and refuses; the matrix then says there is no response.
  Of two blocks with one index the later counts; of blocks asked for one by one
  only the first largest record is appraised.
- `gen_measurements.py`'s own reader accepts index 0 and an index twice, which `ms_load` refuses;
  with `--force` the file is written before it is refused.
- `challenge_verify.py`: an aborted fetch leaves its portions, and the first chain that completes,
  however, is kept. Where the capture also missed a portion, such a chain can have the length it
  declares, and its leaf, made of two fetches, is accepted: a signature it does not verify then
  counts as bad (`ChainIsTheSlots` excludes that one case). A trailing 0x30 raises `IndexError`; a GET_VERSION the capture missed merges
  two connections.
- `check_negotiated.py` names `chunk_send_count`, which `fields.py` does not report, so `Chunk=off` passes
  a capture with CHUNK_SEND only; a selection of one bit without a name reads as nothing
  selected, which only `pcapstat --check` notices.
- Gates: without the file of expectations the outcome check is skipped in silence; a
  failed ancestry query turns "present" into "absent" when the source line is
  indeterminate; the gate does not compare the evidence's tree with the pin;
  `cmd_check` accepts a document that states DISAGREEMENT or INDETERMINATE; a `fields.json`
  whose responder is null is a traceback; taking the oldest pin again moves the date
  before which nothing is reported, so `NewIsReported` speaks of advisories newer than some
  pin; one hundred advisories are fetched and no second page.

## 5. Proofs

Every theorem is of `Spec` (`RunSpec` in HandshakeRun, `ChallengeSpec` in Challenge), for all constants that meet the named assumptions.

*MctpBridge.* `IInv` is the inductive invariant, in eight parts. The properties are not
inductive: that one message is in flight follows only from *where* the exchange
is, which `StreamInv` says with the lengths of the four streams (a waiting requester
bridge is exactly one frame ahead of `rep`), `FlightInv` with the place and contents of the message,
`KeyInv` with the tag, `RelayInv` what was handed over so far. From it `OneExchange`, `SpdmTypeIsSpdmOnly`, `CleanExitAccounts`,
`ShutdownEndsBoth` and the refinement `RelayAsAsked`: each
action of `MctpBridge` is a step of `DirectLink` or a stutter (`ReqForward` is a stutter,
`RspForward` is `Forward`, `ReqReceive` is `Return`).

*TamperProxy.* `FlipInv` ties the report's `applied` to the frame in hand and the frames sent:
it is set exactly when a changed frame is in one place or the other, and never in both. From it
`AtMostOneFlip` and `ExitMatchesWire`, whose one exception is the interrupt with the frame in hand. `FlipLandsWhereAsked` compares bytes with
structure. In signature mode the layout's closing equation pins the signature's end to
the message's end, whatever was learned before (`ClosingIsSound`). In record mode `WalkTiles`
says that the walk over an encoded record finds block by block what was encoded and
stops at its end, for any number of blocks, of any indices and sizes: by induction on
the number of blocks walked, with `RecordPlaces` for where the encoding put each. An index that occurs twice is
the first in both readings, and one that does not occur is refused in both.

*HandshakeRun* (in HandshakeProofs, which has the theorems of Arms, HandshakeRun and Challenge). `RunIInv` = types, `RunInv` (who holds the port, whom `HS_RESPONDER_PID`
names, in which order cases get a status), `OrphansAreKnown` and `EvidenceInv`, the
property extended to clients still running.

*MeasurementSource.* `AnswersInv` is the invariant behind `OneSource`: what has been
answered would be answered again. `LoadedIsSound` is proved of `Load` for every file,
with any width `Word` above the caps. `AccessorsOnlyRead` is an action property: after the first, a
question leaves the module as it was.

*Fixture.* `GeneratedIsAnswered` is of two programs and the bytes between them. `BuildShaped` says
where `build` puts each field (`PackedHeader`, `PackedDescriptor`, and `EqualPartsPlace` for the rows of
table and values); `ShapedAfter` that a byte of a value is no byte of the header or the table;
`ShapedReads` and `BuiltLoads` that both readers then accept the file and find value *i* where it was put; `GeneratedBytes`
what `main`'s refusals leave of the arguments; and `PlacesApart` that the changed byte is of one
value alone. `FixtureInv` carries it over runs, other writers, loads and questions. The
theorem is for any number of blocks, length of a value and arguments that fit the
64 KiB the loader accepts, with a version number below 2^24 (`FixtureAssumption`). `GeneratorIsAWriter` is a refinement: the
generator is one of the writers `MeasurementSource` allows, so `LoadedIsSound` and `OneSource` hold beside it, `--force` included.

*LinkCapture.* `AcceptedIsWhole` needs only that what the socket holds came after it was
bound (`QuietInv`): the file is then a subset of the interval between the readings, and
the last refusal leaves no accepted subset but the whole of it, by cardinality. An
empty file is refused first, which is why the code's "if moved" does no harm when the
counters are readable. `ReplayOkIsReassembled` needs `ExchangeInv`: the one message of an
exchange is in its packets, with the sink, or on its way back, and an acknowledgement
is the length of what the sink received last.

`MeasuredIsSent` puts the two together with the analysis. `WireInv` says what
`group_mctp_messages` makes of the packets that have crossed at any moment: the exchanges so
far as complete messages, no complaint, and one open message exactly while the kernel has
packets of it left, with as many packets and bytes in it as have gone (`GroupNext`, one packet more;
`FragmentAt`, what each packet is; `Agrees` by arithmetic on the last packet's size). It survives loss, because loss
falls after the tap, and it is stated while nothing else is on the link. `TimelyInv`
says why the accepted interval is all of it: nothing crosses before the first reading, and a
capture that was not cut by its own time reads its counters after the replay has ended.
The theorems hold for any lengths, packet size, buffer, loss and number of strays.

*Arms.* `AsDeclaredIsTrue` rests on `OneSelectionRead`: of every response that a responder can
make (`WellFormed`: one table a group, no more tables than its count says) the walk over the bytes reads
what was selected. `TablesEnd` says where the encoding puts each table, `NextTableReads` that a
step takes one table and lands on the next, by external algorithms of its own and by a type nobody knows,
`NextTableStops` that a count that claims more than there are stops at the end, and
`AlgorithmsRead` runs them by induction on the tables walked. The two readings then differ exactly where a
selection has bits without a name (`NamelessIsNoBit`: what remains is never itself a named bit), so
that the second reading's silence shows there are none. `ArmInv` says why a verdict is about its
own arm: from launch to judgement the record and the flags are the arm's, and nothing moves
after the judgement. Any arms, expectations, selections and external algorithms, up to the fifteen a
table can count.

*Challenge.* `JudgedRightly` compares what is rebuilt from bytes with what the two ends know: `conns`
remembers of each connection what it said so far and how its first CHALLENGE was signed, and nobody
who reads the capture has that. `ChallengeIInv` is inductive with no message lost or with some, in four
parts: the types; `Fresh` (no signature's bytes are used twice, so that a triple found among
`signatures` is the one that was made for this CHALLENGE); `SegmentsInv` (of a capture that missed
nothing, segment *n* tells what connection *n* said: its opening and what it could ask before a CHALLENGE,
`Unasked`, or also its first CHALLENGE and the answer, `Signed`); `ChainsInv` (what is collected of a slot
is nothing, the beginning of its chain, its chain whole, or, if a fetch was begun over, something
that starts as the chain and is longer). `SegmentsAppend` and `AssembledAppends` say what one message more does
to segments and chains. `BuildReads` is then that `build` finds in a `Signed` segment what was signed, and where:
the fields' sizes add up to the place of the signature for any shape of the response, and A, picked out code by
code, is the opening. `LeafOfChain` is that the walk over the certificates of a chain as it was made tiles
it and stops at the last (`DerIs`, by induction on the certificates); `LeafRefused`, that what begins as a chain and
is longer is refused by the length it declares. `VerdictIs` puts a verdict together from
these. `LeafIsTheSlotsHolds` is `ChainIsTheSlots` of a capture that missed nothing. Any
certificates, shapes of a response, versions, portion size and number of exchanges.

*CapturedConversation.* `pcapstat.py` reads a capture packet by packet with three loops: the
reassembly, the walk over certificates, the sums. Each is a recursive function in `CaptureStatistics`;
`DechunkAppends`, `WalkAppends`, `ClosingAppends` and `TotalAppends` say that one element more is one step
more (from `FoldAppend` in Recursion), so that the invariant can speak of what the whole capture
gives while each action adds one packet to it.
`Recovered` rests on `Apart`: since the sequence that is open in the reassembly began, *j* other
responses have been chunked, the responder's handle is *j* ahead, and the capture missed the first chunk of each of
those *j*, else the sequence would have been closed. A chunk with the open sequence's handle and next
number is thus of the same response unless 256 responses have lost their first chunk (`HandlesCome`), or a restart
began the handles again. `FoundWhole` and `OpenWhole` say what follows of the
pieces: all of one message, each from where the one before ended. `ChainsFetched` needs `Agrees` (the
open chain is the fetch under way: same slot, as many bytes, the first portion's Length). That a
chain that closes has its slot's length *whatever* is missing needs no state at all: it follows
from where a Length can come from (the first bytes of a chain, section 2.7), and is the type of `SettledChain`. `Roundtrips` needs `Tallies` (CHUNK_GETs so far =
those predicted of what was recovered + those of the response under way) and that the *k*-th chunk begins at
(Dts - 16) + (k - 1)(Dts - 12) (`Owed`), from which `TripsAre` is a division. Any
DataTransferSize from 42 (the least a peer may declare), any chains of at least four bytes, any answers, portions,
number of exchanges, packets missed or cut, and restarts.

*Recursion.* The library's induction theorems take an operator as a parameter, which no installed
prover can instantiate. `WFMin` does not: a nonempty *set* of naturals has a least
member. `Induct` is induction over sets of naturals from that, `Solution` gives a function that is defined by
recursion on a number its equations, `FoldExists` and `FoldAppend` do so for a fold over a
sequence, and `FlattenIs`, `SliceOf` and `RunsPlace` say where each part of a
flattened sequence is. With them what a recursive *function* computes is proved for every
input; what a `RECURSIVE` operator computes is not.

*Gates.* `OutcomesHold` relates two gates that may be any number of edits apart. `GreensInv` says of
each green gate alone what its expectations say: `MatrixMeets` is the lemma that a matrix that
exits 0 has exactly the expected arms, each as expected, and two gates under one
file of expectations then agree through it. `DecidedRightly` needs `WatchInv`: the evidence is of the tree it
was taken from, as far as upstream answered, and a green gate is a document that
passed. `TwoRoutes` is the combinatorial part of `fix_state` (two routes that agree, or the one
that knows, decide, by the cardinality of the set of routes), and `DecisionIsTrue` puts it together:
if upstream answered about both fixes or the source shows the right line, what is
decided is true. `ChainIsFollowed` relates two programs that read the same bytes differently: `check`
compares a bundle with the concatenation of the files and has openssl verify the files, a reader cuts the bundle by the
lengths it finds in it. `ChainInv` says that the files are `gen_chain.sh`'s (any generation, copies that
are not intact among them), and that a green gate found no problem with them; `NoProblems` and its
parts, what a silent `check` has established. The proof then has three parts: whatever
`der_children` reads stands one value after the other from the start (`ChildrenTile`, by induction from the end of the
buffer, over the function that `ChildrenExist` shows there is); three values that tile the
concatenation of three files, and have their lengths, are the files (`CutIsFile`); and what openssl
decodes, `signature_span` does not refuse (`DecodedHasSpan`). `ContentBytes` supplies that every file
is a string of bytes. Any number of arms, captures, edits and generations.

Only model-checked: everything under fairness; `ReadersAgree`, which compares two tables of sums
by name; `PlacedAsSent` and `FlipBreaksOneLink`, which are about what nested encodings give from bytes;
`ChainIsTheSlots` when a message was lost, which depends on the bytes of the certificates (a remainder of
one chain could by its bytes be the whole of a shorter one);
`Cose`, `Corim` and `Attestation`, whose nested items need `RECURSIVE` operators; and the violations.

Assumptions, all named in the modules: `CtrlFitsAssumption` (no emulator control frame
is as long as `BUF_MAX`; the longest carries a greeting), `TagsAssumption`, `WordAssumption`,
`WritesAssumption` (what the generator writes is among the files the source may be given), `ConversationAssumption`
(a DataTransferSize is at least 42, which is SPDM's `MinDataTransferSize` and what the responder
refuses to go below, `docs/upstream/0004-data-transfer-size.md:41`), `NoneAssumption` (`None` is no number, slot or
record), `ChallengeAssumption` (certificates are SEQUENCEs with lengths in one byte, a slot is 0 to 7, a chain's length
and a portion's fit two bytes, and a portion has room for a chain's own Length), and the shapes of the constant sets.

## 6. Plan

Done, in the order of importance in which it was planned: bridge, proxy, runner, source, capture; then
reassembly and decoding, the appraisal with its encodings, challenge verification, the arms, the
generator, the advisory watch with the gates, and the certificate chain.

Left, in order:

1. *GuestArms*: the arms of `run_afmctp.sh`, composed of responder, bridges and capture, one arm after
   another, as HandshakeRun does for the host. An arm whose capture never became ready is
   skipped with its responder and bridges running (line 401).
2. *TamperVerdict*: the verdict of a case as a function of capture, log and report, composed with
   TamperProxy's outcomes.

## 7. Not modelled

- *DOE probe*: register accesses to one emulated device; what a mailbox does between two of them is
  QEMU's, which is not in the repository, and the loops end by constants.
- *Tamper case verdicts*: straight-line shell over the words of a log; its conclusion is in the
  wording it greps for.
- *Guest arms*: see the plan; the guest's boot and the kernel's set-up are outside the repository.
- *Provenance*: one process writes a directory and lists it at the end; no other writer, no resumption.
- *Session drivers*, builds, downloads, figures and reports: external tools and formatting.
- The unit tests of libspdm under `negative/` (libspdm is not here), and C exercises that nothing uses.
- Of the repository checks, those that compare two committed files.
- `check_upstream_commit.sh`: only the answer it gives.

Of the modelled programs: logging and progress output; the byte values of nonces; the working directory of the
shell; hashes and signatures, which are sets of what was hashed and signed; the regular
expressions over `spdm_dump`'s text; the file header of a capture; the overhead and DOE tables of `pcapstat.py`;
the sweep over sizes of `exp04_fragmentation.py`; a certificate chain with a file missing (and the
`StopIteration` with which `check_chain.py:135` ends where an element is missing: the exit status is non-zero either way); CBOR heads of eight
bytes, whose arguments no TLC integer holds; the refusals of `der_to_raw` that no signature of `openssl` meets;
CERTIFICATE's large form in `pcapstat.py:875` (that of `fields.py` is in `Layout`); and the superseded equality
policy beyond its one rule in `Corim`.
