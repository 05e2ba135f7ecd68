------------------------------- MODULE ConnIO -------------------------------
(***************************************************************************)
(* One connection, byte by byte: handle_client of src/conn.c with do_cmd's *)
(* part in it, fill_extra_data, skip_and_reply, reply and conn_reset.  The *)
(* client sends a script of commands, the socket hands the bytes over in   *)
(* pieces of any size, and takes the reply in pieces of any size.          *)
(*                                                                         *)
(* What a command does to jobs is in Tasque; here a command has a kind,    *)
(* which says how its line is answered, and bytes.  A byte is known by the *)
(* command it belongs to and its place in it, so that a shift of one byte  *)
(* shows.  A call that fails with EAGAIN or EINTR changes nothing.         *)
(***************************************************************************)
EXTENDS Integers, Sequences, SequencesExt, FiniteSetsExt

CONSTANTS
  Scripts,       \* the sequences of commands a client may send
  LineBufSize,   \* LINE_BUF_SIZE, the size of c->cmd
  BucketBufSize, \* BUCKET_BUF_SIZE, the most that one read throws away
  WordLen,       \* bytes of a reply line
  JobLen         \* bytes of the body that follows the line of a job reply

Kinds == {"word",   \* answered by a line: use, watch, delete, ...
          "job",    \* answered by a line and a body: peek, stats, list-tubes
          "wait",   \* a reserve that waits
          "put", "skip", \* a put that is accepted, or too big or out of memory
          "refused", \* a put answered BAD_FORMAT.  do_cmd neither takes nor skips
                     \* its body, which is lines of any kind that follow in the script
          "quit"}

\* line counts the bytes before the \r\n of the command line, body those of the
\* body with its own \r\n.
Command == [kind : Kinds, line : Nat, body : Nat]

ASSUME ScriptsAssumption ==
  \A s \in Scripts :
    /\ s \in Seq(Command)
    /\ \A i \in DOMAIN s :
         /\ s[i].line > 0
         /\ IF s[i].kind \in {"put", "skip"} THEN s[i].body > 1 ELSE s[i].body = 0
ASSUME SizesAssumption ==
  /\ LineBufSize \in Nat /\ LineBufSize > 2
  /\ BucketBufSize \in Nat \ {0} /\ WordLen \in Nat \ {0} /\ JobLen \in Nat \ {0}

VARIABLES
  script,        \* what the client sends
  peer,          \* "here", "gone" when it has closed, "noticed" after a failed call
  input,         \* what the client has sent or will send and nobody has read yet
  state,         \* c->state, "closed" when c is freed
  cmd,           \* c->cmd, the first c->cmd_read bytes
  in_job,        \* c->in_job, known by the command that brings it
  in_job_read,   \* c->in_job_read
  body,          \* c->in_job->body, as far as it was read
  reply,         \* "line" or "job": what c->reply and c->out_job are
  reply_sent,    \* c->reply_sent
  out_job_sent,  \* c->out_job_sent
  taken,         \* history: first byte of every line that do_cmd ran
  refused,       \* history: lines refused because they fill the buffer
  answered,      \* history: replies that conn_reset ended
  stored,        \* history: bodies given to enqueue_incoming_job
  sent           \* history: bytes of the reply that are on the wire

inVars   == <<input, cmd, in_job, in_job_read, body>>
outVars  == <<reply, reply_sent, out_job_sent, sent>>
histVars == <<taken, refused, answered, stored>>
ioVars   == <<script, peer, state, inVars, outVars, histVars>>

NoJob == 0

-----------------------------------------------------------------------------
(* The bytes of a script. *)

LineSize(i) == script[i].line + 2
Size(i) == LineSize(i) + script[i].body

\* at 1 is the first byte of the command.  Lines and bodies end with \r\n.
Byte(i, k) ==
  LET ends == {LineSize(i)} \union (IF script[i].body = 0 THEN {} ELSE {Size(i)})
  IN [cmd |-> i, at |-> k,
      chr |-> IF k + 1 \in ends THEN "\r" ELSE IF k \in ends THEN "\n" ELSE "x"]

Text(i) == [k \in 1 .. Size(i) |-> Byte(i, k)]
Body(i) == SubSeq(Text(i), LineSize(i) + 1, Size(i))

Drop(s, n) == SubSeq(s, n + 1, Len(s))

\* Any piece of what the socket has, up to the room that the caller offers.
Pieces(room) == {SubSeq(input, 1, r) : r \in 1 .. Min({room, Len(input)})}

Read(piece) == input' = Drop(input, Len(piece))

-----------------------------------------------------------------------------

Init ==
  /\ script \in Scripts
  /\ peer = "here"
  /\ input = FlattenSeq([i \in DOMAIN script |-> Text(i)])
  /\ state = "wantcommand"
  /\ cmd = <<>>
  /\ in_job = NoJob
  /\ in_job_read = 0
  /\ body = <<>>
  /\ reply = "line"
  /\ reply_sent = 0
  /\ out_job_sent = 0
  /\ taken = <<>>
  /\ refused = 0
  /\ answered = 0
  /\ stored = <<>>
  /\ sent = 0

\* A \r that ends what was read so far is taken for the end of the line.
ScanEol_Fault(s) ==
  LET crs == {p \in 1 .. Len(s) : s[p].chr = "\r"} IN IF crs = {} THEN 0 ELSE Min(crs)

\* scan_eol: where the line ends, 0 when it does not yet.  Only the first \r
\* counts, and the last byte is not looked at.
ScanEol(s) ==
  LET crs == {p \in 1 .. Len(s) - 1 : s[p].chr = "\r"}
  IN IF crs # {} /\ s[Min(crs) + 1].chr = "\n" THEN Min(crs) + 1 ELSE 0

\* reply_line, reply_msg, reply_job.  The caller sets c->state.
StartReply(what) ==
  /\ reply' = what
  /\ reply_sent' = 0
  /\ out_job_sent' = IF what = "job" THEN 0 ELSE out_job_sent
  /\ sent' = 0

Reply == StartReply("line") /\ state' = "sendword"
ReplyJob == StartReply("job") /\ state' = "sendjob"

\* The bytes of the body that came with the line are not counted.
FillExtraData_Fault(extra, job, read) ==
  LET k == Min({Len(extra), IF job # NoJob THEN script[job].body ELSE read})
  IN /\ cmd' = Drop(extra, k)
     /\ body' = IF job # NoJob THEN SubSeq(extra, 1, k) ELSE <<>>
     /\ in_job_read' = IF job # NoJob THEN 0 ELSE read - k

\* All bytes behind the line count as thrown away.
FillExtraData_Over(extra, job, read) ==
  LET k == IF job # NoJob THEN Min({Len(extra), script[job].body}) ELSE Len(extra)
  IN /\ cmd' = Drop(extra, k)
     /\ body' = IF job # NoJob THEN SubSeq(extra, 1, k) ELSE <<>>
     /\ in_job_read' = IF job # NoJob THEN k ELSE read - k

\* fill_extra_data, with the bytes that were read beyond the command line, for
\* these values of c->in_job and c->in_job_read.
FillExtraData(extra, job, read) ==
  LET k == Min({Len(extra), IF job # NoJob THEN script[job].body ELSE read})
  IN /\ cmd' = Drop(extra, k)
     /\ body' = IF job # NoJob THEN SubSeq(extra, 1, k) ELSE <<>>
     /\ in_job_read' = IF job # NoJob THEN k ELSE read - k

\* The count of the body read is not reset.
TakeBody_Fault(bytes) ==
  /\ stored' = Append(stored, bytes)
  /\ in_job' = NoJob /\ body' = <<>>
  /\ in_job_read' = Len(bytes)

\* enqueue_incoming_job, which replies INSERTED, EXPECTED_CRLF or another line.
TakeBody(bytes) ==
  /\ stored' = Append(stored, bytes)
  /\ in_job' = NoJob /\ body' = <<>>
  /\ in_job_read' = 0

-----------------------------------------------------------------------------
(* What do_cmd does with the line, by its kind.  A line that begins in the  *)
(* middle of a command may be anything but a put.                           *)

KindsAt(byte) == IF byte.at = 1 THEN {script[byte.cmd].kind} ELSE {"word", "job", "wait", "quit"}

\* OP_PUT with a job.  The whole body may be there already.
DoPut_Fault(i, extra) ==
  /\ FillExtraData(extra, i, 0)
  /\ state' = "wantdata" /\ in_job' = i
  /\ UNCHANGED <<outVars, stored>>

\* OP_PUT with a job.  The whole body may be there already.
DoPut(i, extra) ==
  \/ /\ Len(extra) < script[i].body
     /\ FillExtraData(extra, i, 0)
     /\ state' = "wantdata" /\ in_job' = i
     /\ UNCHANGED <<outVars, stored>>
  \/ /\ Len(extra) >= script[i].body
     /\ TakeBody(SubSeq(extra, 1, script[i].body))
     /\ cmd' = Drop(extra, script[i].body)
     /\ Reply

\* skip_and_reply.
SkipAndReply(i, extra) ==
  /\ FillExtraData(extra, NoJob, script[i].body)
  /\ in_job' = NoJob
  /\ StartReply("line")
  /\ state' = IF in_job_read' = 0 THEN "sendword" ELSE "bitbucket"
  /\ UNCHANGED stored

\* Every other command, and the fill_extra_data that follows do_cmd.
DoSimple(kind, extra) ==
  /\ FillExtraData(extra, in_job, in_job_read)
  /\ \/ kind \in {"word", "refused"} /\ Reply
     \/ kind = "job" /\ ReplyJob
     \/ kind = "wait" /\ state' = "wait" /\ UNCHANGED outVars
  /\ UNCHANGED <<in_job, stored>>

\* conn_close has freed c when fill_extra_data(c) looks at it: it finds the fd
\* that conn_free has set to -1, or whatever is there by now, and moves bytes.
DoQuit(extra) ==
  /\ state' = "closed"
  /\ \/ FillExtraData(extra, in_job, in_job_read)
     \/ UNCHANGED <<cmd, in_job_read, body>>
  /\ UNCHANGED <<in_job, outVars, stored>>

DoCmd(line, extra) ==
  LET first == Head(line)
  IN \E kind \in KindsAt(first) :
       /\ taken' = Append(taken, first)
       /\ \/ kind = "put" /\ DoPut(first.cmd, extra)
          \/ kind = "skip" /\ SkipAndReply(first.cmd, extra)
          \/ kind = "quit" /\ DoQuit(extra)
          \/ kind \in {"word", "refused", "job", "wait"} /\ DoSimple(kind, extra)
       /\ UNCHANGED <<refused, answered>>

-----------------------------------------------------------------------------
(* handle_client, one action per state.  read answers 0 when it is offered  *)
(* no room, and the connection is closed as if the client had hung up.      *)

Handling(s) == state = s /\ peer = "here"

Close == state' = "closed" /\ UNCHANGED <<script, inVars, outVars, histVars>>

NoRoom(room) == room = 0 /\ Close /\ UNCHANGED peer

\* STATE_WANTCOMMAND.
ReadCommand ==
  /\ Handling("wantcommand")
  /\ \/ NoRoom(LineBufSize - Len(cmd))
     \/ \E piece \in Pieces(LineBufSize - Len(cmd)) :
          LET got == cmd \o piece
              n == ScanEol(got)
          IN /\ Read(piece)
             /\ \/ n > 0 /\ DoCmd(SubSeq(got, 1, n), Drop(got, n))
                \/ /\ n = 0 /\ Len(got) = LineBufSize
                   /\ cmd' = <<>> /\ refused' = refused + 1 /\ Reply
                   /\ UNCHANGED <<in_job, in_job_read, body, taken, answered, stored>>
                \/ /\ n = 0 /\ Len(got) < LineBufSize
                   /\ cmd' = got
                   /\ UNCHANGED <<state, in_job, in_job_read, body, outVars, histVars>>
             /\ UNCHANGED <<script, peer>>

\* STATE_WANTDATA.
ReadBody ==
  /\ Handling("wantdata")
  /\ \/ NoRoom(script[in_job].body - in_job_read)
     \/ \E piece \in Pieces(script[in_job].body - in_job_read) :
          /\ Read(piece)
          /\ \/ /\ in_job_read + Len(piece) = script[in_job].body
                /\ TakeBody(body \o piece) /\ Reply
             \/ /\ in_job_read + Len(piece) < script[in_job].body
                /\ body' = body \o piece /\ in_job_read' = in_job_read + Len(piece)
                /\ UNCHANGED <<state, in_job, outVars, stored>>
          /\ UNCHANGED <<script, peer, cmd, taken, refused, answered>>

\* The reply that was promised is forgotten.
SkipDone_Fault == state' = "wantcommand" /\ UNCHANGED outVars

\* The last byte is thrown away, and the reply can go.
SkipDone == Reply

\* STATE_BITBUCKET.
ThrowAway ==
  /\ Handling("bitbucket")
  /\ \/ NoRoom(Min({in_job_read, BucketBufSize}))
     \/ \E piece \in Pieces(Min({in_job_read, BucketBufSize})) :
          /\ Read(piece)
          /\ in_job_read' = in_job_read - Len(piece)
          /\ IF in_job_read' = 0 THEN SkipDone ELSE UNCHANGED <<state, outVars>>
          /\ UNCHANGED <<script, peer, cmd, in_job, body, histVars>>

\* conn_reset is run as soon as the line has gone.
SendDone_Fault(line, job) == line = WordLen

\* A line is waited for as if a body followed it.
SendDone_Stuck(line, job) == line = WordLen /\ job = JobLen

\* The whole reply is written: the line, and the body of a job.
SendDone(line, job) == IF state = "sendword" THEN line = WordLen ELSE job = JobLen

\* write of STATE_SENDWORD and writev of STATE_SENDJOB took r bytes.
Sent(r) ==
  LET line == Min({reply_sent + r, WordLen})
      job == IF state = "sendjob" THEN out_job_sent + reply_sent + r - line ELSE out_job_sent
  IN /\ sent' = sent + r
     /\ out_job_sent' = job
     /\ IF SendDone(line, job)
        THEN /\ state' = "wantcommand" /\ reply_sent' = 0 /\ answered' = answered + 1
        ELSE /\ reply_sent' = line /\ UNCHANGED <<state, answered>>

\* STATE_SENDWORD and STATE_SENDJOB; conn_reset when the reply is complete.
WriteReply ==
  /\ Handling("sendword") \/ Handling("sendjob")
  /\ LET rest == WordLen - reply_sent
                 + (IF state = "sendjob" THEN JobLen - out_job_sent ELSE 0)
     IN \E r \in 1 .. rest : Sent(r)
  /\ UNCHANGED <<script, peer, inVars, reply, taken, refused, stored>>

\* The client that waits is given a job (reserve_job), or its wait ends
\* (conn_timeout).
WaitEnds ==
  /\ Handling("wait")
  /\ ReplyJob \/ Reply
  /\ UNCHANGED <<script, peer, inVars, histVars>>

\* The client closes, at any time.
PeerCloses ==
  /\ peer = "here" /\ state # "closed"
  /\ peer' = "gone"
  /\ UNCHANGED <<script, state, inVars, outVars, histVars>>

\* EVENT_HUP, which goes before everything else that the client has sent.
HangUp == peer # "here" /\ state # "closed" /\ Close /\ UNCHANGED peer

\* A handler that the loop was about to call when the client closed: read finds
\* the end of the stream, or a call fails with an errno that is not looked at
\* and -1 is added to a count.  The next event is the hang up.
FailedCall ==
  /\ peer = "gone" /\ state \notin {"closed", "wait"}
  /\ peer' = "noticed"
  /\ \/ state \in {"wantcommand", "wantdata", "bitbucket"} /\ Close
     \/ /\ state = "bitbucket"
        /\ in_job_read' = in_job_read + 1
        /\ UNCHANGED <<script, state, input, cmd, in_job, body, outVars, histVars>>
     \/ /\ state \in {"sendword", "sendjob"}
        /\ reply_sent' = reply_sent - 1
        /\ UNCHANGED <<script, state, inVars, reply, out_job_sent, sent, histVars>>

\* handle_client, whenever the socket is ready.
Handler == ReadCommand \/ ReadBody \/ ThrowAway \/ WriteReply \/ HangUp

Next == Handler \/ WaitEnds \/ PeerCloses \/ FailedCall

Spec == Init /\ [][Next]_ioVars

\* epoll is level triggered: what is ready is handled.
FairSpec == Spec /\ WF_ioVars(Handler)

-----------------------------------------------------------------------------

TypeOK ==
  /\ peer \in {"here", "gone", "noticed"}
  /\ state \in {"wantcommand", "wantdata", "bitbucket", "sendword", "sendjob", "wait", "closed"}
  /\ Len(cmd) <= LineBufSize
  /\ in_job \in 0 .. Len(script) /\ in_job_read \in Nat
  /\ reply \in {"line", "job"} /\ reply_sent \in -1 .. WordLen /\ out_job_sent \in 0 .. JobLen
  /\ refused \in Nat /\ answered \in Nat /\ sent \in Nat

\* A line of n bytes that does not fit is refused one buffer at a time.  Its \n is
\* left over when the buffer is full with its \r, and comes before the next line.
LeftOver(n) == IF n > LineBufSize /\ n % LineBufSize = 1 THEN 1 ELSE 0

\* What i leaves over when d bytes came before it.  The body of a command that is
\* not run as it was sent is a line too.
Behind(i, d) ==
  LET n == LineSize(i) + d
  IN IF script[i].body = 0 \/ (d = 0 /\ n <= LineBufSize)
     THEN LeftOver(n) ELSE LeftOver(script[i].body + LeftOver(n))

\* How many bytes come before the line of i.
Before[i \in 1 .. Len(script)] == IF i = 1 THEN 0 ELSE Behind(i - 1, Before[i - 1])

TooLong(i) == LineSize(i) + Before[i] > LineBufSize
Damaged(i) == Before[i] # 0

\* The commands whose line reaches do_cmd as it was sent.
Proper(i) == ~ TooLong(i) /\ ~ Damaged(i)

\* Commands are run in the order they were sent, each once, none out of the
\* bytes of a body that a put takes or skips, and none is left out, in whatever
\* pieces they arrive and however many are in the buffer: no handler consumes a
\* byte too many or too few (fill_extra_data, STATE_WANTDATA, STATE_BITBUCKET).
\* The body of a put that is refused as BAD_FORMAT is commands like any other.
CommandsInOrder ==
  \A k \in DOMAIN taken : taken[k].at = 1 =>
    /\ Proper(taken[k].cmd)
    /\ \A i \in 1 .. Len(script) :
         (i < taken[k].cmd /\ Proper(i)) <=> \E j \in 1 .. k - 1 : taken[j] = Byte(i, 1)

\* What do_cmd runs and is not a command is the rest of a line that was too long,
\* or belongs to the command that this rest has damaged: never a body otherwise,
\* unless that of a put refused as BAD_FORMAT, which the script has as commands.
StrayLines ==
  \A k \in DOMAIN taken : taken[k].at > 1 => ~ Proper(taken[k].cmd)

\* A job gets the body that the client sent with it, no byte of it missing or
\* taken from the next command.
BodyExact ==
  /\ \A k \in DOMAIN stored : stored[k] = Body(stored[k][1].cmd)
  /\ in_job # NoJob => Len(body) = in_job_read /\ IsPrefix(body, Body(in_job))

\* The server answers a line before it takes the next one, and answers it once.
OneReplyPerLine ==
  state # "closed" =>
    Len(taken) + refused = answered + (IF state = "wantcommand" THEN 0 ELSE 1)

\* The two counts of a reply stand for the bytes that are on the wire, across
\* partial writes that end in the line or in the body; a reply that is over is
\* all on the wire.
SentExactly ==
  peer # "noticed" =>
    /\ state = "sendword" => sent = reply_sent
    /\ state = "sendjob" => sent = reply_sent + out_job_sent
    /\ state = "wantcommand" /\ answered > 0 =>
         sent = WordLen + (IF reply = "job" THEN JobLen ELSE 0)

\* The server never hangs up on a client that is there and has not said quit:
\* no read is made with no room, whose 0 would pass for the end of the stream.
\* The rest of a line that was too long may say quit too.
ClosedByClient ==
  [][state # "closed" /\ state' = "closed" =>
       peer # "here" \/ (taken' # taken /\ "quit" \in KindsAt(Last(taken')))]_ioVars

WaitsForever == <>[](state = "wait")

\* Whatever was sent is read: no state of the connection ends in waiting for
\* bytes that it has consumed.
InputRead == <>(input = <<>> \/ state = "closed") \/ WaitsForever

\* src/doc/protocol.txt:7-9 says of the commands of a connection that the server
\* processes them serially in the order received "and sends responses in the same
\* order".  Not so for one that has arrived with another (handle_client).
EveryCommandAnswered ==
  (\A i \in DOMAIN script : ~ TooLong(i)) =>
    <>(Len(taken) = Len(script) \/ state = "closed") \/ WaitsForever

=============================================================================
