---------------------------------- MODULE Rtc ----------------------------------
(***************************************************************************)
(* RTC2 and its driver, my_rtc.c, as the sensor and the light switch use   *)
(* them: main() sets compare channel 1 to 32 ticks of 125 ms, and rtc2_isr *)
(* clears the event and the counter and submits rtc_work, so that a report *)
(* is made every 4 seconds.  The counter goes on counting between any two  *)
(* calls, and the interrupt may be served late, by MaxLate ticks in all.   *)
(***************************************************************************)
EXTENDS Integers

CONSTANTS CounterSize,  \* 2^24, the counter's width
          Period,       \* the compare value, 32
          MaxLate       \* ticks between a match and the end of its interrupt,
                        \* below a period: 4 seconds are long for an interrupt

Channels == 0..3
Channel  == 1   \* the one the application uses

ASSUME RtcConstants ==
    /\ CounterSize \in Nat /\ Period \in Nat \ {0} /\ MaxLate \in Nat
    /\ MaxLate < Period /\ Period + MaxLate < CounterSize

VARIABLES counter,  \* COUNTER
          running,  \* between TASKS_START and TASKS_STOP
          cc,       \* CC
          events,   \* the channels whose EVENTS_COMPARE is 1
          evten,    \* the channels EVTENSET has enabled
          inten,    \* the channels INTENSET has enabled
          setup,    \* where main() is
          isr,      \* where rtc2_isr is
          work,     \* rtc_work is pending
          since,    \* history: ticks since the last submission, or the start
          late      \* history: ticks since the match that is being served

timer   == <<counter, running, cc, events, evten, inten>>
rtcVars == <<timer, setup, isr, work, since, late>>

SetupStates == {"init", "compare", "interrupt", "start", "done"}
IsrStates   == {"idle", "clear_event", "clear", "compare", "submit"}

RtcInit ==
    /\ counter = 0 /\ running = FALSE
    /\ cc = [ch \in Channels |-> 0]
    /\ events = {} /\ evten = {} /\ inten = {}
    /\ setup = "init" /\ isr = "idle"
    /\ work = FALSE
    /\ since = 0 /\ late = 0

--------------------------------------------------------------------------------
(* The driver: what a call writes to the registers. *)

\* my_rtc_init and my_rtc_clear: TASKS_CLEAR.
InitCounter  == counter' = 0
ClearCounter == counter' = 0

\* my_rtc_start and my_rtc_enable_interrupt.
StartCounter        == running' = TRUE
EnableInterrupt(ch) == inten' = inten \union {ch}

\* my_rtc_start_compare rejects a channel or a value the hardware does not have.
StartCompare(ch, value) ==
    IF ch \in Channels /\ value < CounterSize
      THEN cc' = [cc EXCEPT ![ch] = value] /\ evten' = evten \union {ch}
      ELSE UNCHANGED <<cc, evten>>

CompareEvent(ch)      == ch \in events
ClearCompareEvent(ch) == events' = events \ {ch}

--------------------------------------------------------------------------------

\* The hardware.  A match is an event if its channel is enabled.
Serving == events # {} \/ isr # "idle"
Tick ==
    /\ running
    /\ Serving => late < MaxLate
    /\ counter' = (counter + 1) % CounterSize
    /\ events' = events \union {ch \in evten : cc[ch] = counter'}
    /\ since' = since + 1
    /\ late' = IF Serving THEN late + 1 ELSE 0
    /\ UNCHANGED <<running, cc, evten, inten, setup, isr, work>>

\* main(): my_rtc_init, my_rtc_start_compare, my_rtc_enable_interrupt with irq_enable,
\* my_rtc_start; a call that fails would only be logged.
Setup ==
    \/ /\ setup = "init" /\ setup' = "compare"
       /\ InitCounter
       /\ UNCHANGED <<running, cc, events, evten, inten, isr, work, since, late>>
    \/ /\ setup = "compare" /\ setup' = "interrupt"
       /\ StartCompare(Channel, Period)
       /\ UNCHANGED <<counter, running, events, inten, isr, work, since, late>>
    \/ /\ setup = "interrupt" /\ setup' = "start"
       /\ EnableInterrupt(Channel)
       /\ UNCHANGED <<counter, running, cc, events, evten, isr, work, since, late>>
    \/ /\ setup = "start" /\ setup' = "done"
       /\ StartCounter
       /\ UNCHANGED <<counter, cc, events, evten, inten, isr, work, since, late>>

IsrFrame == UNCHANGED <<running, inten, setup>>

\* The interrupt is taken: my_rtc_get_compare_event.
IsrEnters ==
    /\ isr = "idle"
    /\ events \intersect inten # {}
    /\ isr' = IF CompareEvent(Channel) THEN "clear_event" ELSE "idle"
    /\ UNCHANGED <<counter, cc, events, evten, work, since, late>>
    /\ IsrFrame

\* Mutant: the event is left for the next interrupt.
IsrKeepsEvent ==
    /\ isr = "clear_event" /\ isr' = "clear"
    /\ UNCHANGED <<counter, cc, events, evten, work, since, late>>
    /\ IsrFrame

IsrClearsEvent ==
    /\ isr = "clear_event" /\ isr' = "clear"
    /\ ClearCompareEvent(Channel)
    /\ UNCHANGED <<counter, cc, evten, work, since, late>>
    /\ IsrFrame

\* Mutant: the counter is not cleared.
IsrKeepsCounter ==
    /\ isr = "clear" /\ isr' = "compare"
    /\ UNCHANGED <<counter, cc, events, evten, work, since, late>>
    /\ IsrFrame

IsrClearsCounter ==
    /\ isr = "clear" /\ isr' = "compare"
    /\ ClearCounter
    /\ UNCHANGED <<cc, events, evten, work, since, late>>
    /\ IsrFrame

IsrRearms ==
    /\ isr = "compare" /\ isr' = "submit"
    /\ StartCompare(Channel, Period)
    /\ UNCHANGED <<counter, events, work, since, late>>
    /\ IsrFrame

\* k_work_submit.
IsrSubmits ==
    /\ isr = "submit" /\ isr' = "idle"
    /\ work' = TRUE
    /\ since' = 0 /\ late' = 0
    /\ UNCHANGED <<counter, cc, events, evten>>
    /\ IsrFrame

Rtc2Isr == IsrEnters \/ IsrClearsEvent \/ IsrClearsCounter \/ IsrRearms \/ IsrSubmits

\* The work queue takes the item, which may then be submitted again.
WorkTaken ==
    /\ work
    /\ work' = FALSE
    /\ UNCHANGED <<timer, setup, isr, since, late>>

RtcNext == Tick \/ Setup \/ Rtc2Isr \/ WorkTaken
RtcSafe == RtcInit /\ [][RtcNext]_rtcVars

--------------------------------------------------------------------------------

\* Every variable has its type.
RtcTypeOK ==
    /\ counter \in 0..(CounterSize - 1) /\ running \in BOOLEAN
    /\ cc \in [Channels -> 0..(CounterSize - 1)]
    /\ events \subseteq Channels /\ evten \subseteq Channels /\ inten \subseteq Channels
    /\ setup \in SetupStates /\ isr \in IsrStates
    /\ work \in BOOLEAN
    /\ since \in Nat /\ late \in 0..MaxLate

\* Lateness does not add up and no period is lost: however late each interrupt is
\* served, the next submission comes within a period and that lateness.  A counter
\* cleared too early, too late or not at all would wait for the 24 bits to wrap.
NeverSilent == since <= Period + MaxLate

\* An interrupt is served once: a submission is a period after the one before it, less
\* the time the earlier interrupt took after it had cleared the counter.
NeverEarly == [][isr = "submit" /\ isr' = "idle" => since >= Period - MaxLate]_rtcVars

================================================================================
