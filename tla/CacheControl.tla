---------------------------- MODULE CacheControl ----------------------------
(***************************************************************************)
(* CacheControl (bunjalloo/source/CacheControl.cpp): what the headers of   *)
(* an answer say of its age, and whether a copy of it may still be used.   *)
(* Times are in units of which DefaultTime are the code's two minutes, and *)
(* small enough for the code's ints.                                       *)
(***************************************************************************)
EXTENDS Integers

CONSTANTS DefaultTime,   \* 120 seconds
          Fraction       \* 8: a page is good for that part of its age

ASSUME CacheControlAssumption == DefaultTime \in Nat /\ Fraction \in Nat \ {0}

\* reset(): -1 is `not known'.  Nothing but the tests sets the request time,
\* and no header the age.
NoControl == [noCache |-> FALSE, age |-> -1, date |-> -1, expires |-> -1,
              maxAge |-> -1, lastModified |-> -1, request |-> 0, response |-> 0]

Larger(a, b) == IF a < b THEN b ELSE a

CurrentAge(c) ==
  Larger(Larger(0, c.response - c.date), c.age)
    + (c.response - c.request) - c.response

DefaultCache(c, now) == c.response + c.maxAge + DefaultTime > now

MaxAge(c, now) ==
  IF c.maxAge = -1 /\ c.lastModified # -1
  THEN Larger(-1, now + ((now - c.lastModified) \div Fraction))
  ELSE c.maxAge + now

ShouldCache(c, now) ==
  /\ ~c.noCache
  /\ IF c.date = -1 THEN DefaultCache(c, now)
     ELSE IF MaxAge(c, now) # -1 THEN MaxAge(c, now) > CurrentAge(c) + now
     ELSE IF c.expires = -1 THEN DefaultCache(c, now)
     ELSE c.expires - c.date > CurrentAge(c) + now
=============================================================================
