---------------------------- MODULE Configuration ----------------------------
(* What a process makes of its environment before it starts                  *)
(* (backend/internal/config/config.go): a value that is missing, blank or    *)
(* of no use is replaced by a default, and some values are refused, with     *)
(* which main exits before it touches the database.                         *)
(*                                                                         *)
(* A text stands for what is left of it after trimming, and                 *)
(* DATABASE_DRIVER for its lower case; a secret is its length; times are in  *)
(* nanoseconds.                                                            *)
EXTENDS Integers, TLAPS

Timeouts == {"STARTUP_TIMEOUT", "SHUTDOWN_TIMEOUT", "READ_HEADER_TIMEOUT",
             "READ_TIMEOUT", "WRITE_TIMEOUT", "IDLE_TIMEOUT"}

\* The text of a number or a time: missing, some that does not parse, or one that does.
Text == [kind : {"unset", "garbled", "parsed"}, value : Int]

Environment ==
    [APP_NAME : STRING, PORT : STRING, DATABASE_DRIVER : STRING, JWT_SECRET : Nat,
     REQUEST_LIMIT : Text, TOKEN_TTL : Text, timeouts : [Timeouts -> Text]]

Second == 1000000000

Default ==
    [t \in Timeouts |-> CASE t = "STARTUP_TIMEOUT"     -> 35 * Second
                          [] t = "SHUTDOWN_TIMEOUT"    -> 10 * Second
                          [] t = "READ_HEADER_TIMEOUT" -> 5 * Second
                          [] t = "READ_TIMEOUT"        -> 15 * Second
                          [] t = "WRITE_TIMEOUT"       -> 20 * Second
                          [] t = "IDLE_TIMEOUT"        -> 60 * Second]

env(text, fallback) == IF text = "" THEN fallback ELSE text

intEnv(text, fallback) ==
    IF text.kind = "parsed" /\ text.value > 0 THEN text.value ELSE fallback

\* The same code on time.ParseDuration.
durationEnv(text, fallback) == intEnv(text, fallback)

Load(e) ==
    [AppName        |-> env(e.APP_NAME, "railway-bridge-defect-priority"),
     Port           |-> env(e.PORT, "8080"),
     DatabaseDriver |-> env(e.DATABASE_DRIVER, "postgres"),
     JWTSecret      |-> IF e.JWT_SECRET = 0 THEN 26 ELSE e.JWT_SECRET,
     TokenTTL       |-> durationEnv(e.TOKEN_TTL, 8 * 3600 * Second),
     RequestLimit   |-> intEnv(e.REQUEST_LIMIT, 180),
     Timeout        |-> [t \in Timeouts |-> durationEnv(e.timeouts[t], Default[t])]]

MaxLimit == 100000

Validate(c) ==
    /\ c.DatabaseDriver \in {"postgres", "mysql", "sqlite"}
    /\ c.AppName # "" /\ c.Port # ""
    /\ c.JWTSecret >= 16
    /\ c.RequestLimit >= 10 /\ c.RequestLimit <= MaxLimit
    /\ \A t \in Timeouts : c.Timeout[t] > 0

\* The times a token is signed with at some moment, in seconds.
Claims(now, c) == [exp |-> (now + c.TokenTTL) \div Second, iat |-> now \div Second]

\* When a token with these times is accepted.
Accepted(claims, now) == now < claims.exp * Second

-----------------------------------------------------------------------------
\* A number that is taken from the environment is positive if its default is.
LEMMA PositiveEnv ==
    ASSUME NEW text \in Text, NEW fallback \in Nat \ {0}
    PROVE  intEnv(text, fallback) \in Nat \ {0}
BY DEF intEnv, Text

\* No environment makes a start, a stop or a request that has no time at all. Nor is
\* TOKEN_TTL, which is not validated, ever zero or less; how short it may be is another
\* matter (TokensAreUsable).
THEOREM TimesArePositive ==
    ASSUME NEW e \in Environment
    PROVE  /\ Load(e).TokenTTL > 0
           /\ \A t \in Timeouts : Load(e).Timeout[t] > 0
<1>1. Load(e).TokenTTL > 0
  <2>1. e.TOKEN_TTL \in Text
    BY DEF Environment
  <2>2. 8 * 3600 * Second \in Nat \ {0}
    BY DEF Second
  <2>. QED  BY <2>1, <2>2, PositiveEnv DEF Load, durationEnv
<1>2. ASSUME NEW t \in Timeouts PROVE Load(e).Timeout[t] > 0
  <2>1. e.timeouts[t] \in Text
    BY DEF Environment
  <2>2. Default[t] \in Nat \ {0}
    BY DEF Default, Second, Timeouts
  <2>3. Load(e).Timeout[t] = intEnv(e.timeouts[t], Default[t])
    BY DEF Load, durationEnv
  <2>. QED  BY <2>1, <2>2, <2>3, PositiveEnv
<1>. QED  BY <1>1, <1>2

\* Seconds are counted down to the whole one.
LEMMA Truncated ==
    ASSUME NEW time \in Nat
    PROVE  /\ time \div Second \in Nat
           /\ (time \div Second) * Second <= time
           /\ time < (time \div Second) * Second + Second
BY DEF Second

\* A token lives no longer than TOKEN_TTL, and less than a second shorter, as its times
\* are whole seconds. So every login gives a token that is accepted at once exactly if
\* TOKEN_TTL is a second or more: a shorter one passes Validate, and its tokens may expire
\* in the second they are issued in.
THEOREM TokensAreUsable ==
    ASSUME NEW e \in Environment
    PROVE  /\ \A now \in Nat :
                 LET life == Claims(now, Load(e)).exp * Second - now
                 IN  life <= Load(e).TokenTTL /\ life > Load(e).TokenTTL - Second
           /\ (\A now \in Nat : Accepted(Claims(now, Load(e)), now))
                 <=> Load(e).TokenTTL >= Second
<1>. DEFINE ttl == Load(e).TokenTTL
            exp(now) == Claims(now, Load(e)).exp
<1>1. ttl \in Nat \ {0}
  <2>1. e.TOKEN_TTL \in Text
    BY DEF Environment
  <2>2. 8 * 3600 * Second \in Nat \ {0}
    BY DEF Second
  <2>. QED  BY <2>1, <2>2, PositiveEnv DEF Load, durationEnv
<1>2. \A now \in Nat : exp(now) = (now + ttl) \div Second
  BY DEF Claims
<1>. HIDE DEF ttl, exp
<1>3. ASSUME NEW now \in Nat
      PROVE  /\ exp(now) \in Nat
             /\ exp(now) * Second <= now + ttl
             /\ now + ttl < exp(now) * Second + Second
  BY <1>1, <1>2, <1>3, Truncated
<1>4. ASSUME NEW now \in Nat
      PROVE  exp(now) * Second - now <= ttl /\ exp(now) * Second - now > ttl - Second
  BY <1>1, <1>3 DEF Second
<1>5. ASSUME ttl >= Second, NEW now \in Nat
      PROVE  now < exp(now) * Second
  BY <1>1, <1>3, <1>4, <1>5 DEF Second
<1>6. ASSUME 0 < exp(0) * Second
      PROVE  ttl >= Second
  BY <1>1, <1>3, <1>6 DEF Second
<1>. QED  BY <1>4, <1>5, <1>6 DEF Accepted, ttl, exp

\* What can keep a process from starting is its driver, a short secret, or a request
\* limit that is a positive number out of bounds, and nothing else: blank or useless
\* names, ports, times and limits are replaced before Validate sees them.
THEOREM RefusalsAreThree ==
    ASSUME NEW e \in Environment
    PROVE  Validate(Load(e)) <=>
               /\ e.DATABASE_DRIVER \in {"", "postgres", "mysql", "sqlite"}
               /\ e.JWT_SECRET \notin 1 .. 15
               /\ e.REQUEST_LIMIT.kind = "parsed" /\ e.REQUEST_LIMIT.value > 0
                      => e.REQUEST_LIMIT.value >= 10 /\ e.REQUEST_LIMIT.value <= MaxLimit
<1>1. Load(e).AppName # "" /\ Load(e).Port # ""
  BY DEF Load, env
<1>2. \A t \in Timeouts : Load(e).Timeout[t] > 0
  BY TimesArePositive
<1>3. Load(e).DatabaseDriver \in {"postgres", "mysql", "sqlite"}
          <=> e.DATABASE_DRIVER \in {"", "postgres", "mysql", "sqlite"}
  BY DEF Load, env
<1>4. Load(e).JWTSecret >= 16 <=> e.JWT_SECRET \notin 1 .. 15
  <2>1. e.JWT_SECRET \in Nat
    BY DEF Environment
  <2>. QED  BY <2>1 DEF Load
<1>5. (Load(e).RequestLimit >= 10 /\ Load(e).RequestLimit <= MaxLimit)
          <=> (e.REQUEST_LIMIT.kind = "parsed" /\ e.REQUEST_LIMIT.value > 0
                  => e.REQUEST_LIMIT.value >= 10 /\ e.REQUEST_LIMIT.value <= MaxLimit)
  <2>1. e.REQUEST_LIMIT.value \in Int
    BY DEF Environment, Text
  <2>. QED  BY <2>1 DEF Load, intEnv, MaxLimit
<1>. QED  BY <1>1, <1>2, <1>3, <1>4, <1>5 DEF Validate

\* A process that starts allows every client some requests a minute, at most 100000:
\* what the rate limiter takes for granted.
THEOREM LimitsAreUsable ==
    ASSUME NEW e \in Environment, Validate(Load(e))
    PROVE  /\ Load(e).RequestLimit \in Nat
           /\ Load(e).RequestLimit >= 10 /\ Load(e).RequestLimit <= MaxLimit
<1>1. e.REQUEST_LIMIT \in Text
  BY DEF Environment
<1>2. Load(e).RequestLimit \in Nat \ {0}
  BY <1>1, PositiveEnv DEF Load
<1>. QED  BY <1>2 DEF Validate

=============================================================================
