----------------------------- MODULE RateLimiter -----------------------------
(***************************************************************************)
(* FixedWindowRateLimiter (api/rate_limit.py): one counter per key, which  *)
(* starts again when a request finds its window over.                      *)
(*                                                                         *)
(* check() reads the clock before it takes the lock, so a request may be   *)
(* counted with a reading older than the window's start.  The module has   *)
(* what happens under the lock, given the reading; Gateway has the         *)
(* requests.                                                               *)
(*                                                                         *)
(* A tick is a second, and readings are whole: the header's int(x) + 1 is  *)
(* x + 1 (of a fraction it is less, and still more than x).  Limit and     *)
(* window are positive by config.py.                                       *)
(***************************************************************************)
EXTENDS Naturals

CONSTANTS
    Keys,    \* principals, or client hosts
    Limit,   \* settings.rate_limit_requests
    Window   \* settings.rate_limit_window_seconds, in ticks

ASSUME RateLimiterAssumption == Limit \in Nat \ {0} /\ Window \in Nat \ {0}

VARIABLES
    clock,   \* time.monotonic()
    windows  \* _windows; a key that has no entry has count 0 here

LimiterTypeOK ==
    /\ clock \in Nat
    /\ windows \in [Keys -> [start : Nat, count : 0..Limit]]

NoWindows == [k \in Keys |-> [start |-> 0, count |-> 0]]

LimiterInit == clock = 0 /\ windows = NoWindows

\* Mutant: a window is over one tick early.
CurrentEarly(k, now) ==
    IF windows[k].count = 0 \/ now + 1 >= windows[k].start + Window
      THEN [start |-> now, count |-> 0]
      ELSE windows[k]

\* Mutant: a window never ends.
CurrentForever(k, now) ==
    IF windows[k].count = 0 THEN [start |-> now, count |-> 0] ELSE windows[k]

\* The window of a request whose clock reading is now.
Current(k, now) ==
    IF windows[k].count = 0 \/ now >= windows[k].start + Window
      THEN [start |-> now, count |-> 0]
      ELSE windows[k]

Refuses(k, now) == Current(k, now).count >= Limit

\* The Retry-After header: the rest of the window, and one more.
RetryAfter(k, now) == (Current(k, now).start + Window - now) + 1

\* Mutant: refused requests are counted, too.
HitRefused(k, now) ==
    windows' = [windows EXCEPT ![k] = [Current(k, now) EXCEPT !.count = @ + 1]]

\* The dictionary after check().
Hit(k, now) ==
    windows' = [windows EXCEPT ![k] =
                  IF Refuses(k, now)
                    THEN Current(k, now)
                    ELSE [Current(k, now) EXCEPT !.count = @ + 1]]
=============================================================================
