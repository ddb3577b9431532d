----------------------------- MODULE RootLogger -----------------------------
(***************************************************************************)
(* The logger behind the macros (include/log_line.h): LoggerImpl::Logger() *)
(* makes it on first use, with three local statics that are initialized in *)
(* turn, the last by a function that configures the logger it was given.   *)
(* Threads that come meanwhile wait at the guard of the static.            *)
(*                                                                         *)
(* It is a Logger as in SyncLogging whose one sink has a NonMutex and can  *)
(* be reached by nobody else; the program may add sinks of its own.        *)
(***************************************************************************)
EXTENDS SyncLogging

CONSTANTS
  Root,       \* the static sink
  Done        \* a guard whose static is initialized

ASSUME RootAssumption ==
  /\ Root \in Sink \ Locking /\ SinkList = <<Root>>
  /\ Done \notin Thread \cup {Nobody}
  /\ {DEBUG, INFO} \subseteq SetLevelTo

VARIABLES
  place,      \* the static of Logger() a thread is at; 0 outside, and behind
              \* the last when it has the logger
  guard,      \* of each static: Nobody, who initializes it, or Done
  configured  \* statements of the third initializer that were executed

rootVars == <<vars, place, guard, configured>>

Statics == 1 .. 3   \* sink, logger, initialized
HasLogger == 4

RootInit ==
  /\ Init
  /\ place = [t \in Thread |-> 0]
  /\ guard = [i \in Statics |-> Nobody]
  /\ configured = 0

-----------------------------------------------------------------------------
(* A macro is used.                                                        *)
Macro(t) ==
  /\ pc[t] = "idle" /\ place[t] = 0 /\ calls[t] < MaxCalls
  /\ place' = [place EXCEPT ![t] = 1]
  /\ UNCHANGED <<vars, guard, configured>>

(* Mutant: another thread's initialization is not waited for.              *)
SomebodyBegan(t) == guard[place[t]] \notin {Nobody, t}

Initialized(t) == guard[place[t]] = Done

Pass(t) ==
  /\ place[t] \in Statics /\ Initialized(t)
  /\ place' = [place EXCEPT ![t] = @ + 1]
  /\ UNCHANGED <<vars, guard, configured>>

Acquire(t) ==
  /\ place[t] \in Statics /\ guard[place[t]] = Nobody
  /\ guard' = [guard EXCEPT ![place[t]] = t]
  /\ UNCHANGED <<vars, place, configured>>

Initializes(t, i) == place[t] = i /\ guard[i] = t

(* The sink, then the logger; Init has what their constructors give them.  *)
Construct(t) ==
  /\ \E i \in {1, 2} : Initializes(t, i) /\ guard' = [guard EXCEPT ![i] = Done]
  /\ UNCHANGED <<vars, place, configured>>

(* The function that initializes the third: its four statements.           *)
Configure(t) ==
  /\ Initializes(t, 3)
  /\ \/ configured = 0 /\ SetSinkLevel(Root, DEBUG)
     \/ configured = 1 /\ PushSink(Root)
     \/ configured = 2 /\ SetLevel(DEBUG)
     \/ configured = 3 /\ SetFlush(INFO)
  /\ configured' = configured + 1
  /\ UNCHANGED <<place, guard>>

Configured(t) ==
  /\ Initializes(t, 3) /\ configured = 4
  /\ guard' = [guard EXCEPT ![3] = Done]
  /\ UNCHANGED <<vars, place, configured>>

(* The call of the member function the macro names.                        *)
LogMacro(t, l) ==
  /\ place[t] = HasLogger
  /\ Log(t, l)
  /\ place' = [place EXCEPT ![t] = 0]
  /\ UNCHANGED <<guard, configured>>

LogStepOf(t) == LogStep(t) /\ UNCHANGED <<place, guard, configured>>

(* Bound: what MaxChanges leaves besides the four of the initialization.   *)
MayChange == changes - configured < MaxChanges - 4

Added == {m_sinks[i] : i \in DOMAIN m_sinks} \ {Root}

(* What the program does with the logger, once it is made, and with the    *)
(* sinks it has added; before that, theirs is a matter of construction.    *)
Program ==
  /\ \/ \E s \in Added : SetFormatter(s)
     \/ MayChange /\ \E s \in Added : \E l \in SetLevelTo \ {sinkLevel[s]} :
          SetSinkLevel(s, l)
     \/ MayChange /\ guard[3] = Done /\
          \/ \E s \in Sink \ (Added \cup {Root}) : AddSink(s)
          \/ \E l \in SetLevelTo \ {m_level} : SetLevel(l)
          \/ \E l \in SetLevelTo \ {m_flushLevel} : SetFlush(l)
  /\ UNCHANGED <<place, guard, configured>>

MacroStep(t) ==
  \/ Pass(t) \/ Acquire(t) \/ Construct(t) \/ Configure(t) \/ Configured(t)
  \/ (\E l \in CallLevel : LogMacro(t, l)) \/ LogStepOf(t)

RootOver ==
  /\ \A t \in Thread : place[t] = 0 /\ pc[t] = "idle" /\ calls[t] = MaxCalls
  /\ UNCHANGED rootVars

RootNext ==
  \/ \E t \in Thread : Macro(t) \/ MacroStep(t)
  \/ Program
  \/ RootOver

RootSpec == RootInit /\ [][RootNext]_rootVars

(* A thread inside a macro keeps running.  A mutex or a guard is given to  *)
(* some waiter, in no promised order: as others make finitely many calls,  *)
(* each waiter is served, and what fails without this is an unlock or a    *)
(* step that a thread never gets to.                                       *)
RootFairSpec == RootSpec /\ \A t \in Thread : WF_rootVars(MacroStep(t))

-----------------------------------------------------------------------------
(* Whoever logs has the logger with both registrations of its sink.        *)
ConfiguredWhenUsed ==
  \A t \in Thread : pc[t] # "idle" =>
    Len(m_sinks) >= 2 /\ SubSeq(m_sinks, 1, 2) = <<Root, Root>>

(* The logger is used as a Logger may be: above all, the addSink of the    *)
(* initialization, which asks nobody, meets no thread inside the logger,   *)
(* whichever thread comes first, and no thread logs before it.             *)
RootIsALogger == Init /\ [][Next /\ ConfiguredWhenUsed']_vars

(* A macro returns: nobody waits for ever at a guard or a mutex.           *)
MacrosReturn ==
  \A t \in Thread :
    (place[t] # 0 \/ pc[t] # "idle") ~> (place[t] = 0 /\ pc[t] = "idle")
=============================================================================
