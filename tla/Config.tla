------------------------------- MODULE Config -------------------------------
(***************************************************************************)
(* Config::loadFromFile of RealTime_Embedded_Systems: what the program     *)
(* works with, for every state of its configuration file.  JSON carries    *)
(* 64-bit integers; they are narrowed to int or converted to size_t before *)
(* sanitize() sees them.  Of the int settings a count of seconds, a delay   *)
(* and the window are kept; the affinities, which change no state, are not.*)
(***************************************************************************)
EXTENDS Integers, Sequences

CONSTANTS Symbols,          \* names of symbols
          SymbolLists,      \* the lists a configuration file may hold
          DefaultSymbols,   \* the list of Config::Config
          Numbers,          \* the integers it may hold for the settings that are int
          CountChoices,     \* the numbers of workers it may ask for, one of each kind
          IntBits, SizeBits \* widths of int and size_t

ASSUME ConfigAssumption ==
    /\ SymbolLists \subseteq Seq(Symbols)
    /\ DefaultSymbols \in Seq(Symbols) /\ DefaultSymbols # <<>>
    /\ Numbers \subseteq Int
    /\ CountChoices \subseteq [{"recording", "statistics", "exporting"} -> Int]
    /\ IntBits \in Nat \ {0} /\ SizeBits \in Nat \ {0}
    /\ \A n \in {IntBits - 1, IntBits, SizeBits} : 2^n \in Nat \ {0}

AtLeast(low, n) == IF n < low THEN low ELSE n   \* std::max

Narrow(n) == ((n + 2^(IntBits - 1)) % 2^IntBits) - 2^(IntBits - 1)

ToSize(n) == n % 2^SizeBits

\* std::clamp(count, 1, size): undefined when there are no symbols, where the
\* library takes either bound.
Clamped(n, size) ==
    IF size = 0 THEN {0, 1}
    ELSE {IF AtLeast(1, n) > size THEN size ELSE AtLeast(1, n)}

Counts == {"recording", "statistics", "exporting"}

Defaults ==
    [symbols |-> DefaultSymbols, count |-> [k \in Counts |-> 1],
     interval |-> 30, delay |-> 10000, window |-> 15]

\* The settings sanitize() may make of a file: raw is what the file holds.
Sanitized(raw) ==
    {[symbols  |-> raw.symbols,
      count    |-> c,
      interval |-> AtLeast(1, Narrow(raw.number)),
      delay    |-> AtLeast(0, Narrow(raw.number)),
      window   |-> AtLeast(1, Narrow(raw.number))] :
        c \in {f \in [Counts -> 0..AtLeast(1, Len(raw.symbols))] :
                  \A k \in Counts : f[k] \in Clamped(ToSize(raw.count[k]), Len(raw.symbols))}}

\* One number stands for all the settings that are int.
Files == [symbols : SymbolLists, count : CountChoices, number : Numbers]

\* What every later stage relies on.
Usable(s) ==
    /\ s.interval >= 1 /\ s.delay >= 0 /\ s.window >= 1
    /\ s.symbols # <<>> => \A k \in Counts : s.count[k] \in 1..Len(s.symbols)
=============================================================================
