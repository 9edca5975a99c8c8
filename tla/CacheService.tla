---------------------------- MODULE CacheService ----------------------------
(***************************************************************************)
(* What the request broker promises its peer on stdin and stdout (spec    *)
(* 4.6, 5 and 8), with the goroutines, the singleflight group and the     *)
(* backend hidden.  The broker goes Handshake -> Serving -> Draining ->   *)
(* Closed.  It writes the capabilities line (ID 0) before reading; while  *)
(* serving it consumes requests and stops at a close, at the end of the   *)
(* input or on a fatal error; every request but the close is answered by  *)
(* a task of its own, in any order; the close is answered only after     *)
(* every earlier request; and the broker returns only after every request *)
(* is answered, unless writing to stdout failed, after which nothing more *)
(* is written.  Broker refines this specification.                        *)
(***************************************************************************)
EXTENDS Naturals, Sequences

CONSTANTS
    Requests,  \* the requests the peer may send
    Closes     \* those that are a close command

VARIABLES
    phase,     \* "handshake", "serving", "draining" or "closed"
    received,  \* the requests consumed from stdin, in order; the i-th has ID i
    lines,     \* the IDs of the responses written to stdout, in order
    failed     \* a write to stdout has failed

svars == <<phase, received, lines, failed>>

(* Request i has a response on stdout. *)
Responded(i) == \E k \in 1..Len(lines) : lines[k] = i

SInit ==
    /\ phase = "handshake"
    /\ received = <<>>
    /\ lines = <<>>
    /\ failed = FALSE

(* A line is written whole, or the write fails and stdout stays broken. *)
SWrite(id) == ~failed /\ lines' = Append(lines, id) /\ UNCHANGED failed
SWriteFails == failed' = TRUE /\ UNCHANGED lines

(* Handshake: the capabilities response, before any request is read. *)
SHandshake ==
    /\ phase = "handshake"
    /\ \/ SWrite(0) /\ phase' = "serving"
       \/ SWriteFails /\ phase' = "closed"
    /\ UNCHANGED received

(* Serving: consume a request; a close turns the broker to Draining. *)
SReceive(r) ==
    /\ phase = "serving"
    /\ received' = Append(received, r)
    /\ phase' = IF r \in Closes THEN "draining" ELSE "serving"
    /\ UNCHANGED <<lines, failed>>

(* Serving ends at the end of the input or on a fatal error. *)
SStop ==
    /\ phase = "serving"
    /\ phase' = "draining"
    /\ UNCHANGED <<received, lines, failed>>

(* The task of request i answers it, once, before the broker returns. *)
SAnswer(i) ==
    /\ phase # "closed"
    /\ i \in 1..Len(received)
    /\ received[i] \notin Closes
    /\ ~Responded(i)
    /\ SWrite(i)
    /\ UNCHANGED <<phase, received>>

(* A task's write fails; the broker keeps draining. *)
SAnswerFails ==
    /\ phase # "closed"
    /\ SWriteFails
    /\ UNCHANGED <<phase, received>>

(* Draining a close: once every earlier request is answered (or stdout  *)
(* has failed), the close response, the last line; if its write fails   *)
(* the broker returns.                                                    *)
SAnswerClose ==
    LET c == Len(received) IN
    /\ phase = "draining"
    /\ c >= 1 /\ received[c] \in Closes
    /\ ~Responded(c)
    /\ \A i \in 1..c - 1 : Responded(i) \/ failed
    /\ \/ SWrite(c) /\ UNCHANGED phase
       \/ SWriteFails /\ phase' = "closed"
    /\ UNCHANGED received

(* Closed: the broker returns once every request consumed has been      *)
(* answered, or once stdout has failed.                                  *)
SReturn ==
    /\ phase = "draining"
    /\ failed \/ \A i \in 1..Len(received) : Responded(i)
    /\ phase' = "closed"
    /\ UNCHANGED <<received, lines, failed>>

SNext ==
    \/ SHandshake \/ SStop \/ SAnswerFails \/ SAnswerClose \/ SReturn
    \/ \E r \in Requests : SReceive(r)
    \/ \E i \in 1..Len(received) : SAnswer(i)

SSpec == SInit /\ [][SNext]_svars
=============================================================================
