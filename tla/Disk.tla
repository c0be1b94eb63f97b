-------------------------------- MODULE Disk --------------------------------
(***************************************************************************)
(* CDiskIO (src/src/io/Disk.cpp) with its CBuffer (src/src/io/IO.cpp):     *)
(* AsyncRead asks the kernel for the blocks around a piece of a file, an   *)
(* eventfd tells when they are there, OnRead answers.  Several objects, in *)
(* threads of their own, share the contexts the kernel gives to a process. *)
(* The user of an object asks for one thing at a time and may destroy the  *)
(* object while it waits.                                                  *)
(*                                                                         *)
(* AsyncRead is taken apart where a call can fail: pc is "idle", "alloc",  *)
(* "eventfd", "setup", "submit" or "register", the call that is next,      *)
(* "waiting" for OnRead, or "closing", in Close.                           *)
(***************************************************************************)
EXTENDS Integers, Sequences, FiniteSetsExt

CONSTANTS Disks,     \* the objects
          Contexts,  \* the handles io_setup can return: as many as at a time
          Align,     \* ALIGN_SIZE
          Sizes,     \* of the file; 0 is a file that is not found or empty
          Offsets, Lengths  \* what is asked for

ASSUME DiskAssumption ==
   /\ Align \in Nat \ {0} /\ Sizes \subseteq Nat
   /\ Offsets \subseteq Nat /\ Lengths \subseteq Nat

None == [code |-> "none", used |-> 0]
Zero == -1        \* a byte of the buffer that was never read
NoContext == 0

VARIABLES pc,       \* of each object
          ctx,      \* m_Ctx: a handle, live or not, or NoContext
          req,      \* what was asked for: offset and length, m_Offset, m_Len
          data,     \* the buffer: which byte of the file each of its bytes is
          counter,  \* of m_EventFd
          verdict,  \* what is told when Close returns
          answer,   \* what ReturnEvent told the user, until it is taken
          live,     \* the contexts there are
          flight,   \* the context an object's request is in, or NoContext
          ready,    \* the results of a context that are to be fetched
          excused   \* history: objects whose answer may be wrong

object == <<ctx, req, data, counter>>
kernel == <<live, flight, ready>>
told == <<verdict, answer>>
vars == <<pc, object, told, kernel, excused>>

NoRequest == [offset |-> 0, want |-> 0, shift |-> 0, len |-> 0, size |-> 0]

Init == /\ pc = [d \in Disks |-> "idle"]
        /\ ctx \in [Disks -> Contexts \cup {NoContext}]
        /\ req = [d \in Disks |-> NoRequest]
        /\ data = [d \in Disks |-> << >>]
        /\ counter = [d \in Disks |-> 0]
        /\ answer = [d \in Disks |-> None]
        /\ verdict = [d \in Disks |-> None]
        /\ live = {} /\ flight = [d \in Disks |-> NoContext]
        /\ ready = [c \in Contexts |-> << >>]
        /\ excused = {}

-----------------------------------------------------------------------------
Down(n) == (n \div Align) * Align
Up(n) == Down(n + Align - 1)

Goes(d, to) == pc' = [pc EXCEPT ![d] = to]

(* ReturnEvent, and the eventfd is closed.                                 *)
Return(d, result) == /\ Goes(d, "idle")
                     /\ answer' = [answer EXCEPT ![d] = result]
                     /\ verdict' = [verdict EXCEPT ![d] = None]
                     /\ counter' = [counter EXCEPT ![d] = 0]

(* The objects that take a context for theirs.                             *)
Users(c) == {d \in Disks : ctx[d] = c /\ pc[d] \in {"submit", "register", "waiting"}}

(* Close: m_Ctx is destroyed, whoever it belongs to by now; a context that *)
(* is there takes no more requests, and io_destroy waits for those it has. *)
Close(d, result) ==
   /\ IF ctx[d] \in live
      THEN /\ live' = live \ {ctx[d]}
           /\ ready' = [ready EXCEPT ![ctx[d]] = << >>]
           /\ excused' = excused \cup (Users(ctx[d]) \ {d})
           /\ Goes(d, "closing")
           /\ verdict' = [verdict EXCEPT ![d] = result]
           /\ UNCHANGED <<flight, counter, answer>>
      ELSE Return(d, result) /\ UNCHANGED <<kernel, excused>>
   /\ UNCHANGED ctx

Closed(d) == /\ pc[d] = "closing"
             /\ \A e \in Disks : flight[e] # ctx[d]
             /\ Return(d, verdict[d])
             /\ UNCHANGED <<ctx, req, data, kernel, excused>>

Failed == [code |-> "failed", used |-> 0]

-----------------------------------------------------------------------------
(* AsyncRead.  The whole file is read for the length 0, or when more is    *)
(* asked for than it has.                                                  *)
Opens(d) == \E offset \in Offsets, len \in Lengths, size \in Sizes \ {0} :
   LET l == IF len = 0 \/ len > size THEN size ELSE len
   IN /\ req' = [req EXCEPT ![d] = [offset |-> offset, want |-> l,
                                    shift |-> offset - Down(offset), len |-> l,
                                    size |-> Up(offset + l) - Down(offset)]]
      /\ Goes(d, "alloc")
      /\ UNCHANGED <<ctx, data, counter, told, kernel>>

(* It is in no path, or cannot be opened; nothing is to be closed.         *)
NotOpened(d) == /\ Return(d, Failed)
                /\ UNCHANGED <<ctx, req, data, kernel>>

AsyncRead(d) == /\ pc[d] = "idle" /\ answer[d] = None
                /\ flight[d] = NoContext
                /\ Opens(d) \/ NotOpened(d)
                /\ excused' = excused \ {d}

(* CBuffer::Alloc: all zeroes, whether the memory is new or not.           *)
Alloc(d) == /\ pc[d] = "alloc"
            /\ data' = [data EXCEPT ![d] = [i \in 0..req[d].size - 1 |-> Zero]]
            /\ Goes(d, "eventfd")
            /\ UNCHANGED <<ctx, req, counter, told, kernel, excused>>

EventFd(d) == /\ pc[d] = "eventfd"
              /\ Goes(d, "setup")
              /\ UNCHANGED <<object, told, kernel, excused>>

(* Contexts that are not there and that nobody waits for.                  *)
Free == {c \in Contexts \ live :
           \A e \in Disks : flight[e] # c /\ (pc[e] = "closing" => ctx[e] # c)}

(* io_setup: a handle that is free, perhaps one that another object has    *)
(* lost and does not know.                                                 *)
SetUp(d) == /\ pc[d] = "setup"
            /\ \E c \in Free :
                  /\ ctx' = [ctx EXCEPT ![d] = c]
                  /\ live' = live \cup {c}
                  /\ excused' = IF Users(c) = {} THEN excused ELSE excused \cup {d}
            /\ Goes(d, "submit")
            /\ UNCHANGED <<req, data, counter, told, flight, ready>>

(* Variant: nobody is told.                                                *)
SetUpFailsQuietly(d) == /\ pc[d] = "setup"
                        /\ ctx' = [ctx EXCEPT ![d] = NoContext]
                        /\ Return(d, None)
                        /\ UNCHANGED <<req, data, kernel, excused>>

(* m_Ctx is cleared before io_setup, and stays so when that fails.         *)
SetUpFails(d) == /\ pc[d] = "setup"
                 /\ ctx' = [ctx EXCEPT ![d] = NoContext]
                 /\ Return(d, Failed)
                 /\ UNCHANGED <<req, data, kernel, excused>>

Submit(d) == /\ pc[d] = "submit" /\ ctx[d] \in live
             /\ flight' = [flight EXCEPT ![d] = ctx[d]]
             /\ Goes(d, "register")
             /\ UNCHANGED <<object, told, live, ready, excused>>

Register(d) == /\ pc[d] = "register"
               /\ Goes(d, "waiting")
               /\ UNCHANGED <<object, told, kernel, excused>>

(* The other calls of AsyncRead fail.  Before io_setup m_Ctx is what it    *)
(* was when the object was made, or was last closed.                       *)
Fails(d) == /\ pc[d] \in {"alloc", "eventfd", "submit", "register"}
            /\ Close(d, Failed)
            /\ UNCHANGED <<req, data>>

-----------------------------------------------------------------------------
(* The kernel has read what there is of the blocks -- the file may have    *)
(* another size by now -- or failed; the bytes are in the buffer and the   *)
(* eventfd is written.                                                     *)
Arrives(d, res) == /\ ready' = IF flight[d] \notin live THEN ready
                               ELSE [ready EXCEPT ![flight[d]] = Append(@, res)]
                   /\ flight' = [flight EXCEPT ![d] = NoContext]
                   /\ counter' = [counter EXCEPT ![d] = 1]
                   /\ UNCHANGED <<pc, ctx, req, told, live>>

Complete(d) ==
   /\ flight[d] # NoContext
   /\ \E size \in Sizes :
      LET from == Down(req[d].offset)
          n == Max({0, Min({req[d].size, size - from})})
      IN /\ Arrives(d, n)
         /\ data' = [data EXCEPT ![d] = [i \in DOMAIN data[d] |->
                                           IF i < n THEN from + i ELSE data[d][i]]]
         /\ excused' = IF size < req[d].offset THEN excused \cup {d} ELSE excused

(* A negative result, which is the largest of numbers to OnRead.           *)
Error == -1

CompleteFails(d) == /\ flight[d] # NoContext
                    /\ Arrives(d, Error)
                    /\ excused' = excused \cup {d}
                    /\ UNCHANGED data

-----------------------------------------------------------------------------
(* Variant: the bytes before the offset are counted as asked for.          *)
UsedShort(d, res) == IF res < 0 \/ req[d].len < res THEN req[d].len ELSE res

(* m_Len < res - m_Offset ? m_Len : res - m_Offset, in unsigned numbers.   *)
Used(d, res) == LET left == res - req[d].shift
                IN IF res < 0 \/ left < 0 \/ req[d].len < left
                   THEN req[d].len ELSE left

Got(d) == ctx[d] \in live /\ ready[ctx[d]] # << >>

(* OnRead: io_getevents takes the result of m_Ctx, whoever it belongs to.  *)
OnRead(d) == /\ pc[d] = "waiting" /\ counter[d] = 1 /\ Got(d)
             /\ Close(d, [code |-> "ok", used |-> Used(d, Head(ready[ctx[d]]))])
             /\ UNCHANGED <<req, data>>

(* The context is gone, or has nothing to give.                            *)
OnReadFails(d) == /\ pc[d] = "waiting" /\ counter[d] = 1 /\ ~Got(d)
                  /\ Close(d, Failed)
                  /\ UNCHANGED <<req, data>>

-----------------------------------------------------------------------------
(* The user.                                                               *)

(* Nothing of the request is left; the buffer is the user's.               *)
Forgets(d) == /\ req' = [req EXCEPT ![d] = NoRequest]
              /\ data' = [data EXCEPT ![d] = << >>]

Take(d) == /\ answer[d] # None
           /\ answer' = [answer EXCEPT ![d] = None]
           /\ Forgets(d)
           /\ excused' = IF flight[d] = NoContext THEN excused \ {d} ELSE excused
           /\ UNCHANGED <<pc, ctx, counter, verdict, kernel>>

(* ~CDiskIO tells nobody, here that the object is gone; then a new one,    *)
(* whose m_Ctx is whatever the memory held.                                *)
Gone == [code |-> "gone", used |-> 0]

Destroy(d) == /\ pc[d] = "waiting"
              /\ Close(d, Gone)
              /\ Forgets(d)

Create(d) == /\ pc[d] = "idle" /\ answer[d] = None /\ flight[d] = NoContext
             /\ \E c \in Contexts \cup {NoContext} : ctx' = [ctx EXCEPT ![d] = c]
             /\ UNCHANGED <<pc, req, data, counter, told, kernel, excused>>

-----------------------------------------------------------------------------
Step(d) == \/ Alloc(d) \/ EventFd(d) \/ SetUp(d) \/ SetUpFails(d)
           \/ Submit(d) \/ Register(d) \/ Fails(d)
           \/ OnRead(d) \/ OnReadFails(d) \/ Closed(d)

Kernel(d) == Complete(d) \/ CompleteFails(d)

Next == \E d \in Disks : \/ AsyncRead(d) \/ Step(d) \/ Kernel(d)
                         \/ Take(d) \/ Destroy(d) \/ Create(d)

Spec == Init /\ [][Next]_vars

(* The threads go on, and the kernel ends what it began.                   *)
FairSpec == /\ Spec
            /\ \A d \in Disks : WF_vars(Step(d)) /\ WF_vars(Kernel(d))

-----------------------------------------------------------------------------
TypeOK == /\ pc \in [Disks -> {"idle", "alloc", "eventfd", "setup", "submit",
                               "register", "waiting", "closing"}]
          /\ ctx \in [Disks -> Contexts \cup {NoContext}]
          /\ counter \in [Disks -> 0..1]
          /\ live \subseteq Contexts
          /\ flight \in [Disks -> Contexts \cup {NoContext}]
          /\ excused \subseteq Disks

(* Who is told that the file was read finds in the buffer, behind its      *)
(* offset, the bytes that were asked for and no others, however the blocks *)
(* lie and whatever the other objects do -- unless the disk failed, the    *)
(* file ends before the offset, or another object has destroyed the        *)
(* context -- and the kernel writes to no buffer whose user has been told. *)
RightBytes ==
   /\ TypeOK
   /\ \A d \in Disks : answer[d].code = "ok" /\ d \notin excused =>
         /\ answer[d].used <= req[d].want
         /\ \A i \in 0..answer[d].used - 1 :
               data[d][req[d].shift + i] = req[d].offset + i
   /\ \A d \in Disks : flight[d] # NoContext /\ d \notin excused =>
         pc[d] \in {"register", "waiting", "closing"}

(* A request is answered, or its object gone, whatever fails on the way    *)
(* and whoever destroys the context.                                       *)
Answered == \A d \in Disks : pc[d] # "idle" ~> answer[d] # None
=============================================================================
