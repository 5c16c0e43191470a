------------------------------- MODULE ToolHost --------------------------------
(***************************************************************************)
(* A tool call behind the agent loop: the tools a session is built with    *)
(* (harness/builder.rs) and one call of one of them, by the host that runs *)
(* it: a thread or a future under PawbunToolAdapter, ToolKit's time limit, *)
(* bash (LocalCodeExecutor), a subprocess with its pipes, an HTTP          *)
(* endpoint (HttpProxyTool, SidecarHandler), generated media.              *)
(***************************************************************************)
EXTENDS Integers, Sequences, SequencesExt, FiniteSets

CONSTANTS Hosts,      \* what runs the calls
          Offers,     \* the tools a session is built from
          Scripts,    \* subprocesses: [does, request, out, exit, json]
          PipeSize, MaxStdout  \* in the units of request and out; MAX_STDOUT_BYTES

\* Names are strings, lists of them are vectors; sizes are numbers.
ASSUME HostAssumption ==
    /\ Offers # {} /\ \A o \in Offers : o.external \in Seq(STRING) /\ o.builtin \in Seq(STRING)
    /\ Scripts # {} /\ \A s \in Scripts : s.out \in Nat /\ s.request \in Nat
    /\ MaxStdout \in Nat

VARIABLES host, offer, script,
          tools,       \* the assembled list
          waiter,      \* where the caller is: "idle", "writing", "waiting", "reading", "answered"
          signal,      \* the call's token is cancelled
          work,        \* the tool itself: "none", "running", "finished", "failed", "killed"
          limit,       \* the time limit: "off", "running", "past"
          stdin, stdout, taken,  \* bytes written and not read, in both pipes; read by stdout_reader
          fed, reported,   \* what the child has read, and written
          readers, holder,  \* stdout_reader runs; a grandchild holds the pipe
          response,    \* of an HTTP endpoint: [status, body]; or of the media provider
          answer       \* [is, why]

hostVars == <<host, offer, script, tools, waiter, signal, work, limit, stdin, stdout, taken, fed, reported, readers, holder, response, answer>>
pipeVars == <<stdin, stdout, taken, fed, reported, readers, holder>>
builtVars == <<host, offer, script, tools>>

NoAnswer == [is |-> "none", why |-> "none"]
NoResponse == [status |-> "none", body |-> "none"]
Ok(why) == [is |-> "ok", why |-> why]
ErrorResult(why) == [is |-> "error", why |-> why]   \* a result with is_error
Err(why) == [is |-> "failed", why |-> why]    \* Err(..) of the call

-----------------------------------------------------------------------------
(* Building a session: external tools, media, the user's own, Pawbun's.      *)

Group(from, names) == [n \in 1..Len(names) |-> [name |-> names[n], from |-> from]]

AssembleTools_LastWins(all) ==
    LET Keep(kept, tool) == Append(SelectSeq(kept, LAMBDA t : t.name # tool.name), tool) IN FoldLeft(Keep, <<>>, all)

\* The first of a name is kept.
AssembleTools(all) ==
    LET Keep(kept, tool) == IF \E n \in DOMAIN kept : kept[n].name = tool.name THEN kept ELSE Append(kept, tool)
    IN FoldLeft(Keep, <<>>, all)

BuildPawbunToolRefs(enabled, disabled) ==
    LET Kept(name) == IF enabled /\ name \notin disabled THEN Group("pawbun", <<name>>) ELSE <<>>
    IN Kept("file_read") \o Kept("file_write") \o Kept("directory_list") \o Kept("code_execute")

BuildTools(o) == AssembleTools(Group("external", o.external) \o (IF o.media THEN Group("media", <<"generate_media">>) ELSE <<>>)
                     \o Group("builtin", o.builtin) \o BuildPawbunToolRefs(o.enabled, o.disabled))

\* The agent loop takes the first tool of the name.
Lookup(name) == LET hits == {n \in DOMAIN tools : tools[n].name = name}
                IN IF hits = {} THEN "none" ELSE tools[CHOOSE n \in hits : \A m \in hits : n <= m].from

HostInit ==
    /\ host \in Hosts /\ offer \in Offers /\ script \in Scripts
    /\ host # "subprocess" => script = CHOOSE s \in Scripts : TRUE
    /\ host # "thread" => offer = CHOOSE o \in Offers : TRUE
    /\ tools = BuildTools(offer) /\ waiter = "idle" /\ signal = FALSE /\ work = "none" /\ limit = "off"
    /\ stdin = 0 /\ stdout = 0 /\ taken = 0 /\ fed = 0 /\ reported = 0 /\ readers = FALSE /\ holder = FALSE
    /\ response = NoResponse /\ answer = NoAnswer

Answer(a) == waiter' = "answered" /\ answer' = a

\* The session is interrupted, or the run's token cancelled.
Cancel ==
    /\ ~signal /\ waiter # "idle" /\ signal' = TRUE
    /\ UNCHANGED <<builtVars, waiter, work, limit, pipeVars, response, answer>>

-----------------------------------------------------------------------------
(* Threads and futures: PawbunToolAdapter.                                   *)

\* A tool without as_async goes to the blocking pool.
StartTool ==
    /\ host \in {"thread", "future", "bash", "toolkit"} /\ waiter = "idle"
    /\ waiter' = "waiting" /\ work' = "running"
    /\ limit' = IF host \in {"bash", "toolkit"} THEN "running" ELSE "off"
    /\ UNCHANGED <<builtVars, signal, pipeVars, response, answer>>

\* The tool ends, well or not (a panic included); it may also never.
ToolEnds(how) ==
    /\ host \in {"thread", "future", "bash", "toolkit"} /\ work = "running" /\ work' = how
    /\ UNCHANGED <<builtVars, waiter, signal, limit, pipeVars, response, answer>>

\* select! without an order: what is ready may win.  bash is given a result of its exit code.
AdapterReturns ==
    /\ host \in {"thread", "future", "bash"} /\ waiter = "waiting" /\ work \in {"finished", "failed"}
    /\ Answer(IF work = "finished" THEN Ok("result") ELSE ErrorResult("tool_failed"))
    /\ UNCHANGED <<builtVars, signal, work, limit, pipeVars, response>>

\* A future is dropped with its child process; a thread goes on.
AdapterCancelled ==
    /\ host \in {"thread", "future", "bash"} /\ waiter = "waiting" /\ signal
    /\ Answer(ErrorResult("cancelled")) /\ work' = IF host # "thread" /\ work = "running" THEN "killed" ELSE work
    /\ UNCHANGED <<builtVars, signal, limit, pipeVars, response>>

\* LocalCodeExecutor: timeout around wait_with_output; the child is dropped, and killed.
BashTimesOut ==
    /\ host = "bash" /\ waiter = "waiting" /\ limit = "past"
    /\ Answer(ErrorResult("timeout")) /\ work' = IF work = "running" THEN "killed" ELSE work
    /\ UNCHANGED <<builtVars, signal, limit, pipeVars, response>>

LimitPasses ==
    /\ limit = "running" /\ waiter # "answered" /\ limit' = "past"
    /\ UNCHANGED <<builtVars, waiter, signal, work, pipeVars, response, answer>>

\* execute_with_timeout: the tool runs on the caller's thread, so the answer waits for its end;
\* the monitor may still be woken by the dropped channel, or have run out before.
ToolkitReturns ==
    /\ host = "toolkit" /\ waiter = "waiting" /\ work \in {"finished", "failed"}
    /\ Answer(IF limit = "past" THEN Err("timeout") ELSE IF work = "finished" THEN Ok("result") ELSE Err("tool_failed"))
    /\ UNCHANGED <<builtVars, signal, work, limit, pipeVars, response>>

-----------------------------------------------------------------------------
(* A subprocess: the request on stdin, the result on stdout.                 *)

Child == work = "running"

Spawn ==
    /\ host = "subprocess" /\ waiter = "idle"
    /\ IF script.does = "missing" THEN Answer(Err("failed_to_spawn")) /\ work' = work
       ELSE waiter' = "writing" /\ work' = "running" /\ answer' = answer
    /\ UNCHANGED <<builtVars, signal, limit, pipeVars, response>>

\* write_all, a unit at a time; nobody reads stdout yet, and no time limit runs.
WriteStdin ==
    /\ host = "subprocess" /\ waiter = "writing"
    /\ \/ /\ Child /\ fed + stdin < script.request /\ stdin < PipeSize /\ stdin' = stdin + 1
          /\ UNCHANGED <<waiter, answer, readers, limit>>
       \/ /\ ~Child /\ fed + stdin < script.request /\ Answer(Err("broken_pipe")) /\ UNCHANGED <<stdin, readers, limit>>
       \/ /\ fed + stdin = script.request
          /\ waiter' = "waiting" /\ readers' = TRUE /\ limit' = "running" /\ UNCHANGED <<stdin, answer>>
    /\ UNCHANGED <<builtVars, signal, work, stdout, taken, fed, reported, holder, response>>

\* What the child does next: it reads first, or writes first, or does not read at all.
ChildReads ==
    /\ host = "subprocess" /\ Child /\ stdin > 0
    /\ script.does = "reads" \/ (script.does = "writes" /\ reported = script.out)
    /\ stdin' = stdin - 1 /\ fed' = fed + 1
    /\ UNCHANGED <<builtVars, waiter, signal, work, limit, stdout, taken, reported, readers, holder, response, answer>>
ChildWrites ==
    /\ host = "subprocess" /\ Child /\ reported < script.out
    /\ script.does \in {"writes", "ignores", "forks"} \/ (script.does = "reads" /\ fed = script.request)
    /\ stdout < PipeSize /\ ~(waiter = "waiting" /\ ~readers)
    /\ stdout' = stdout + 1 /\ reported' = reported + 1
    /\ UNCHANGED <<builtVars, waiter, signal, work, limit, stdin, taken, fed, readers, holder, response, answer>>

\* It exits when all is written, or as the reader has closed the pipe; one that forks leaves a
\* process with the pipe; one that hangs does not.
ChildExits ==
    /\ host = "subprocess" /\ Child /\ script.does # "hangs"
    /\ \/ /\ reported = script.out
          /\ script.does = "reads" => fed = script.request /\ stdin = 0
          /\ script.does = "writes" => fed = script.request
          /\ work' = IF script.exit = 0 THEN "finished" ELSE "failed"
       \/ reported < script.out /\ waiter = "waiting" /\ ~readers /\ work' = "failed"
    /\ holder' = (script.does = "forks")
    /\ UNCHANGED <<builtVars, waiter, signal, limit, stdin, stdout, taken, fed, reported, readers, response, answer>>

\* stdout_reader: up to one more than the limit, or to the end of the pipe.
ReadStdout ==
    /\ host = "subprocess" /\ readers
    /\ \/ /\ stdout > 0 /\ taken < MaxStdout + 1 /\ stdout' = stdout - 1 /\ taken' = taken + 1 /\ readers' = (taken' < MaxStdout + 1)
       \/ stdout = 0 /\ ~Child /\ ~holder /\ readers' = FALSE /\ UNCHANGED <<stdout, taken>>
    /\ UNCHANGED <<builtVars, waiter, signal, work, limit, stdin, fed, reported, holder, response, answer>>

WaitEnds_NeverKills ==
    /\ host = "subprocess" /\ waiter = "waiting" /\ ~Child /\ limit' = "off" /\ waiter' = "reading"
    /\ UNCHANGED <<builtVars, signal, work, pipeVars, response, answer>>

\* child.wait() returns, or the limit passes and the child, not its children, is killed.
WaitEnds ==
    /\ host = "subprocess" /\ waiter = "waiting"
    /\ \/ ~Child /\ limit' = "off" /\ work' = work /\ holder' = holder
       \/ Child /\ limit = "past" /\ limit' = limit /\ work' = "killed" /\ holder' = (script.does = "forks")
    /\ waiter' = "reading"
    /\ UNCHANGED <<builtVars, signal, stdin, stdout, taken, fed, reported, readers, response, answer>>

\* Time out, too much output, exit code (stderr is cut at a byte), JSON: in that order.
CollectOutput ==
    /\ host = "subprocess" /\ waiter = "reading" /\ ~readers
    /\ Answer(IF limit = "past" THEN ErrorResult("timeout")
              ELSE IF taken > MaxStdout THEN ErrorResult("too_much")
              ELSE IF work = "failed" THEN ErrorResult("exit_code")
              ELSE IF script.json # "object" THEN (IF script.json = "none" THEN ErrorResult("invalid_JSON") ELSE Err("not_a_result"))
              ELSE Ok("result"))
    /\ UNCHANGED <<builtVars, signal, work, limit, pipeVars, response>>

-----------------------------------------------------------------------------
(* HTTP: POST, then the body.                                                *)

PostRequest ==
    /\ host \in {"proxy", "sidecar"} /\ waiter = "idle"
    /\ \/ host = "proxy" /\ Answer(ErrorResult("internal_endpoint")) /\ limit' = limit
       \/ waiter' = "waiting" /\ limit' = "running" /\ answer' = answer
    /\ UNCHANGED <<builtVars, signal, work, pipeVars, response>>

Respond(status, body) ==
    /\ host \in {"proxy", "sidecar"} /\ waiter \in {"waiting", "reading"} /\ response = NoResponse
    /\ response' = [status |-> status, body |-> body] /\ work' = "finished"
    /\ UNCHANGED <<builtVars, waiter, signal, limit, pipeVars, answer>>

\* The proxy's select! looks at the token first; behind it nothing does.
Headers ==
    /\ host \in {"proxy", "sidecar"} /\ waiter = "waiting"
    /\ IF host = "proxy" /\ signal THEN Answer(ErrorResult("cancelled"))
       ELSE \/ response # NoResponse /\ waiter' = "reading" /\ answer' = answer
            \/ limit = "past" /\ response = NoResponse /\ Answer(IF host = "proxy" THEN ErrorResult("HTTP_error") ELSE Err("unreachable"))
    /\ UNCHANGED <<builtVars, signal, work, limit, pipeVars, response>>

\* The time limit is the request's as a whole.  The proxy asks the status first, the sidecar
\* the size and the JSON.
ProxyAnswer == IF response.status = "bad" THEN ErrorResult("status")
               ELSE IF limit = "past" \/ response.body # "result" THEN ErrorResult("unparsed") ELSE Ok("result")
SidecarAnswer == IF limit = "past" THEN Err("unread")
                 ELSE IF response.body = "huge" THEN ErrorResult("too_much")
                 ELSE IF response.body = "text" THEN Err("invalid_JSON")
                 ELSE IF response.status = "bad" THEN ErrorResult("status")
                 ELSE IF response.body = "result" THEN Ok("result") ELSE Err("not_a_result")

Body ==
    /\ host \in {"proxy", "sidecar"} /\ waiter = "reading"
    /\ Answer(IF host = "proxy" THEN ProxyAnswer ELSE SidecarAnswer)
    /\ UNCHANGED <<builtVars, signal, work, limit, pipeVars, response>>

-----------------------------------------------------------------------------
(* Generated media: resolve a model, generate, and save what is not small.   *)

\* The model that is asked for or the default, else the first that can do the task.
ResolveModel(supports) == IF "candidate" \in supports THEN "candidate" ELSE IF "other" \in supports THEN "other" ELSE "none"

Generate(supports, status, body) ==
    /\ host = "media" /\ waiter = "idle"
    /\ IF ResolveModel(supports) = "none" THEN Answer(Err("no_model")) /\ UNCHANGED <<work, response>>
       ELSE IF signal \/ status = "bad" THEN Answer(Err("provider")) /\ work' = "failed" /\ UNCHANGED response
       ELSE /\ response' = [status |-> status, body |-> body] /\ work' = "running"
            /\ waiter' = "reading" /\ answer' = answer
    /\ UNCHANGED <<builtVars, signal, limit, pipeVars>>

\* An image below 1 MiB goes inline; the rest to the workspace, a reference downloaded before.
Inline ==
    /\ host = "media" /\ waiter = "reading" /\ response.body = "small_image"
    /\ Answer(Ok("image")) /\ work' = "finished"
    /\ UNCHANGED <<builtVars, signal, limit, pipeVars, response>>
SaveMedia(fails) ==
    /\ host = "media" /\ waiter = "reading" /\ response.body # "small_image"
    /\ LET lost == fails \/ response.body = "too_large"
       IN Answer(IF lost THEN Err("not_saved") ELSE Ok("path")) /\ work' = IF lost THEN "failed" ELSE "finished"
    /\ UNCHANGED <<builtVars, signal, limit, pipeVars, response>>

HostNext ==
    \/ Cancel \/ StartTool \/ ToolEnds("finished") \/ ToolEnds("failed") \/ AdapterReturns \/ AdapterCancelled
    \/ BashTimesOut \/ LimitPasses \/ ToolkitReturns
    \/ Spawn \/ WriteStdin \/ ChildReads \/ ChildWrites \/ ChildExits \/ ReadStdout \/ WaitEnds \/ CollectOutput
    \/ PostRequest \/ Headers \/ Body
    \/ \E status \in {"good", "bad"}, body \in {"result", "json", "text", "huge"} : Respond(status, body)
    \/ \E supports \in SUBSET {"candidate", "other"}, status \in {"good", "bad"}, body \in {"small_image", "large_image", "video", "reference", "too_large"} :
           Generate(supports, status, body)
    \/ Inline
    \/ \E fails \in BOOLEAN : SaveMedia(fails)

\* All of it goes on by itself, but for a tool that hangs, a request that stays unanswered and
\* the one who cancels.
HostFairness ==
    /\ WF_hostVars(StartTool \/ AdapterReturns \/ AdapterCancelled \/ BashTimesOut \/ LimitPasses \/ ToolkitReturns)
    /\ WF_hostVars(Spawn \/ WriteStdin \/ WaitEnds \/ CollectOutput) /\ WF_hostVars(ReadStdout)
    /\ WF_hostVars(ChildReads \/ ChildWrites \/ ChildExits) /\ WF_hostVars(PostRequest \/ Headers \/ Body)

HostSpec == HostInit /\ [][HostNext]_hostVars /\ HostFairness

-----------------------------------------------------------------------------
(* Properties.                                                               *)

\* The list has each name once, and under it the tool of the highest place that offers it.
Offered(from) == CASE from = "external" -> ToSet(offer.external)
                   [] from = "media" -> IF offer.media THEN {"generate_media"} ELSE {}
                   [] from = "builtin" -> ToSet(offer.builtin)
                   [] from = "pawbun" -> IF offer.enabled THEN {"file_read", "file_write", "directory_list", "code_execute"} \ offer.disabled ELSE {}
ToolPlaces == <<"external", "media", "builtin", "pawbun">>
ToolsAreFirst ==
    /\ \A n, m \in DOMAIN tools : tools[n].name = tools[m].name => n = m
    /\ \A p \in DOMAIN ToolPlaces : \A name \in Offered(ToolPlaces[p]) :
           (\A q \in 1..(p - 1) : name \notin Offered(ToolPlaces[q])) => Lookup(name) = ToolPlaces[p]

\* An answer tells what became of the work: a success is that of work that ended well, whole and
\* within its limits; a process that was given up is dead; a broken or cut output, a bad status
\* or an exit code is no success.
AnswerIsTrue ==
    waiter = "answered" =>
        /\ answer.is = "ok" => /\ work = "finished" /\ (host \in {"toolkit", "subprocess"} => limit # "past")
                               /\ response.status # "bad"
        /\ host = "subprocess" => /\ ~Child \/ answer.why = "failed_to_spawn"
                                  /\ answer.is = "ok" => taken = script.out /\ taken <= MaxStdout /\ script.json = "object"
                                  /\ answer.why = "too_much" => taken > MaxStdout
        /\ host \in {"bash", "future"} => ~Child
        /\ host = "proxy" /\ answer.why = "cancelled" => signal
HostKept == ToolsAreFirst /\ AnswerIsTrue

\* A call of a subprocess that reads its request before it writes is answered, and that of one
\* that hangs as well: what it waits for in a pipe comes, or the child is killed.
SubprocessReturns ==
    (waiter = "writing" /\ (script.does = "reads" \/ (script.does = "hangs" /\ script.request <= PipeSize))) ~> waiter = "answered"

(* What documents say, or a reader may expect, and the code does not keep.   *)

\* subprocess.rs:101: the readers are there before anyone waits; not before stdin is written.
NoPipeDeadlock == waiter = "writing" ~> waiter = "answered"
\* The time limit ends the call; a grandchild with the pipe keeps it waiting.
LimitEndsCall == limit = "past" ~> waiter = "answered"
\* toolkit.rs:69: past the limit, a timeout is returned.
ToolkitLimit == (host = "toolkit" /\ limit = "past") ~> waiter = "answered"
\* A call that is answered is over; a blocking thread goes on.
AnswerMeansEnd == waiter = "answered" => ~Child
\* A cancelled call is answered as such, also while its body is read.
CancelledIsTold == [][signal /\ waiter = "reading" /\ host = "proxy" => answer'.is # "ok"]_hostVars
===============================================================================
