----------------------------- MODULE PlotCommand -----------------------------
(***************************************************************************)
(* The command line of a plotter process, as the daemon writes it and as  *)
(* the plotter reads it back.                                              *)
(*                                                                         *)
(* corpochain/daemon/server.py builds "command_args" for each queue item  *)
(* from the start_plotting request (_build_plotting_command_args and its  *)
(* per-plotter helpers); launch_plotter runs them, and the "corpochain    *)
(* plotters" command hands the words after "plotters" to call_plotters in *)
(* corpochain/plotters/plotters.py, whose argparse parsers are built from *)
(* the option lists by build_parser.                                       *)
(*                                                                         *)
(* A word is a record: `opt` is the option string it starts with ("" for  *)
(* a plain word) and `txt` the text after it.  Text is a sequence of       *)
(* characters; a directory or a key is one opaque character (a model      *)
(* value), an integer is written by str() as its decimal digits.          *)
(***************************************************************************)
EXTENDS Integers, Sequences, SequencesExt, FiniteSets

CONSTANTS
  NONE,   \* Python's None: a key request.get() does not find
  Dirs,   \* directory paths a request names
  Keys    \* hex strings of public keys, which binascii.unhexlify accepts

Digit == <<"0", "1", "2", "3", "4", "5", "6", "7", "8", "9">>

\* str(i) of a Python int: its decimal digits, with a "-" if negative.
RECURSIVE Decimal(_)
Decimal(i) ==
  IF i < 0 THEN <<"-">> \o Decimal(-i)
  ELSE IF i < 10 THEN <<Digit[i + 1]>>
  ELSE Decimal(i \div 10) \o <<Digit[(i % 10) + 1]>>

\* str(x): a path or key is its own text, an int its decimal digits.
Str(x) == IF x \in Dirs \cup Keys THEN <<x>> ELSE Decimal(x)

\* str.isdigit(): at least one character, and all of them digits.
IsDigit(s) == s # <<>> /\ \A j \in 1..Len(s) : s[j] \in ToSet(Digit)

DigitValue(c) == CHOOSE d \in 0..9 : Digit[d + 1] = c

\* int(s), the argparse type=int: optional minus sign, then digits.
IsInt(s) == IsDigit(s) \/ (Len(s) > 1 /\ s[1] = "-" /\ IsDigit(Tail(s)))
IntOf(s) ==
  LET val(t) == FoldLeft(LAMBDA acc, c : 10 * acc + DigitValue(c), 0, t)
  IN IF s[1] = "-" THEN -val(Tail(s)) ELSE val(s)

Opt(o) == [opt |-> o, txt |-> <<>>]       \* "-k"
Val(x) == [opt |-> "", txt |-> Str(x)]    \* str(k)
Att(o, x) == [opt |-> o, txt |-> Str(x)]  \* f"-k{k}"
Name(s) == [opt |-> "", txt |-> <<s>>]     \* "chiapos"

-----------------------------------------------------------------------------
(* The request: every key the builders read.  Absent(f) is what           *)
(* request.get(f, ...) returns when the GUI did not send f; the keys read *)
(* with request[f] must be sent (a KeyError otherwise).                   *)

Absent(f) ==
  CASE f = "plotter" -> "chiapos"
    [] f = "K" -> 1
    [] f \in {"G", "w", "m", "no_cpu_affinity", "disk_128", "disk_16",
              "alternate", "no_t1_direct", "no_t2_direct", "parallel"} -> FALSE
    [] f = "n" -> 1
    [] OTHER -> NONE

\* A request with the keys in `given`, the others as request.get sees them.
Request(given) ==
  [f \in DOMAIN given \cup
         {"plotter", "plot_type", "n", "d", "r", "f", "p", "k", "t", "t2", "b",
          "u", "a", "e", "x", "overrideK", "v", "K", "G", "w", "m",
          "no_cpu_affinity", "compress", "device", "disk_128", "disk_16",
          "cache", "f1_threads", "fp_threads", "c_threads", "p2_threads",
          "p3_threads", "alternate", "no_t1_direct", "no_t2_direct",
          "parallel"} |->
     IF f \in DOMAIN given THEN given[f] ELSE Absent(f)]

\* Flag-building idioms of the builders.
IfTrue(b, o) == IF b = TRUE THEN <<Opt(o)>> ELSE <<>>          \* if b is True
IfGiven(x, o) == IF x # NONE THEN <<Opt(o), Val(x)>> ELSE <<>> \* if x is not None
IfDigits(x, o) ==                                  \* and str(x).isdigit()
  IF x # NONE /\ IsDigit(Str(x)) THEN <<Opt(o), Val(x)>> ELSE <<>>
IfNotNone(x, o) == IF x # NONE THEN <<Opt(o)>> ELSE <<>>       \* switch if not None

\* _common_plotting_command_args
CommonArgs(r, ignoreCount) ==
  <<Opt("-n"), Val(IF ignoreCount THEN 1 ELSE r.n), Opt("-d"), Val(r.d),
    Opt("-r"), Val(r.r)>> \o IfGiven(r.f, "-f") \o IfGiven(r.p, "-p")

\* _chiapos_plotting_command_args
ChiaposArgs(r) ==
  <<Opt("-k"), Val(r.k), Opt("-t"), Val(r.t), Opt("-b"), Val(r.b),
    Opt("-u"), Val(r.u)>>
  \o IfGiven(r.t2, "-2") \o IfGiven(r.a, "-a") \o IfTrue(r.e, "-e")
  \o IfTrue(r.x, "-x") \o IfTrue(r.overrideK, "--override-k")

\* _bladebit_plotting_command_args: the options common to all three plot
\* types, then cudaplot's or diskplot's own (ramplot has none).  The
\* caller has asserted plot_type is one of the three.
BladebitArgs(r) ==
  IfTrue(r.w, "--warmstart") \o IfTrue(r.m, "--nonuma")
  \o IfTrue(r.no_cpu_affinity, "--no-cpu-affinity")
  \o IfDigits(r.compress, "--compress")
  \o CASE r.plot_type = "ramplot" -> <<>>
       [] r.plot_type = "cudaplot" ->
            IfDigits(r.device, "--device") \o IfGiven(r.t, "-t")
            \o IfGiven(r.t2, "-2") \o IfTrue(r.disk_128, "--disk-128")
            \o IfTrue(r.disk_16, "--disk-16")
       [] r.plot_type = "diskplot" ->
            <<Opt("-t"), Val(r.t)>> \o IfGiven(r.t2, "-2") \o IfGiven(r.u, "-u")
            \o IfGiven(r.cache, "--cache")
            \o IfGiven(r.f1_threads, "--f1-threads")
            \o IfGiven(r.fp_threads, "--fp-threads")
            \o IfGiven(r.c_threads, "--c-threads")
            \o IfGiven(r.p2_threads, "--p2-threads")
            \o IfGiven(r.p3_threads, "--p3-threads")
            \o IfNotNone(r.alternate, "--alternate")
            \o IfNotNone(r.no_t1_direct, "--no-t1-direct")
            \o IfNotNone(r.no_t2_direct, "--no-t2-direct")

\* madmax handles its tmptoggle (-G) itself: odd items swap tmp and tmp2.
MadmaxSwaps(r, index) == r.G = TRUE /\ r.t # r.t2 /\ index % 2 = 1

\* _madmax_plotting_command_args: every value is attached to its flag.
MadmaxArgs(r, index) ==
  <<Att("-k", r.k), Att("-u", r.u), Att("-v", r.v), Att("-K", r.K)>>
  \o IF MadmaxSwaps(r, index) THEN <<Att("-t", r.t2), Att("-2", r.t)>>
                              ELSE <<Att("-t", r.t), Att("-2", r.t2)>>

\* _build_plotting_command_args
BuildArgs(r, ignoreCount, index) ==
  <<Name("corpochain"), Name("plotters"), Name(r.plotter)>>
  \o (IF r.plotter = "bladebit" THEN <<Name(r.plot_type)>> ELSE <<>>)
  \o CommonArgs(r, ignoreCount)
  \o CASE r.plotter = "chiapos" -> ChiaposArgs(r)
       [] r.plotter = "madmax" -> MadmaxArgs(r, index)
       [] r.plotter = "bladebit" -> BladebitArgs(r)
       [] OTHER -> <<>>

-----------------------------------------------------------------------------
(* The plotter side: build_parser's add_argument calls per Options member *)
(* (its option strings, dest, type, required and default) and the       *)
(* option list of each subparser.  kind "int", "str" and "hex" are the    *)
(* type= conversions (binascii.unhexlify for "hex"), "flag" is            *)
(* action="store_true"; dflt is the default after its type conversion.    *)

Arg(flags, dest, kind, req, dflt) ==
  [flags |-> flags, dest |-> dest, kind |-> kind, req |-> req, dflt |-> dflt]

\* build_parser for the options of chiapos and madmax; name is the
\* subparser's name, on which the defaults of -u and -r depend.
CoreOptions(name) ==
  [K |-> Arg({"-k", "--size"}, "size", "int", FALSE, 32),
   NUM_BUCKETS |-> Arg({"-u", "--buckets"}, "buckets", "int", FALSE,
                       IF name = "chiapos" THEN 0 ELSE 256),
   STRIPE_SIZE |-> Arg({"-s", "--stripes"}, "stripes", "int", FALSE, 0),
   TMP_DIR |-> Arg({"-t", "--tmp_dir"}, "tmpdir", "str", TRUE, NONE),
   TMP_DIR2 |-> Arg({"-2", "--tmp_dir2"}, "tmpdir2", "str", FALSE, <<>>),
   CUDA_TMP_DIR |-> Arg({"-t", "--tmp_dir"}, "tmpdir", "str", FALSE, NONE),
   FINAL_DIR |-> Arg({"-d", "--final_dir"}, "finaldir", "str", TRUE, NONE),
   BUFF |-> Arg({"-b", "--buffer"}, "buffer", "int", FALSE, 0),
   NUM_THREADS |-> Arg({"-r", "--threads"}, "threads", "int", FALSE,
                       IF name = "madmax" THEN 4 ELSE 0),
   NOBITFIELD |-> Arg({"-e", "--nobitfield"}, "nobitfield", "flag", FALSE, FALSE),
   MEMO |-> Arg({"-m", "--memo"}, "memo", "hex", FALSE, NONE),
   ID |-> Arg({"-i", "--id"}, "id", "hex", FALSE, NONE),
   PLOT_COUNT |-> Arg({"-n", "--count"}, "count", "int", FALSE, 1),
   MADMAX_NUM_BUCKETS_PHRASE3 |-> Arg({"-v", "--buckets3"}, "buckets3", "int", FALSE, 256),
   MADMAX_WAITFORCOPY |-> Arg({"-w", "--waitforcopy"}, "waitforcopy", "flag", FALSE, FALSE),
   MADMAX_TMPTOGGLE |-> Arg({"-G", "--tmptoggle"}, "tmptoggle", "flag", FALSE, FALSE),
   MADMAX_RMULTI2 |-> Arg({"-K", "--rmulti2"}, "rmulti2", "int", FALSE, 1),
   POOLKEY |-> Arg({"-p", "--pool-key"}, "pool_key", "hex", FALSE, <<>>),
   FARMERKEY |-> Arg({"-f", "--farmerkey"}, "farmerkey", "hex", FALSE, <<>>)]

\* build_parser for the remaining options, mostly bladebit's.
BladebitOptions ==
  [BLADEBIT_WARMSTART |-> Arg({"-w", "--warmstart"}, "warmstart", "flag", FALSE, FALSE),
   BLADEBIT_NONUMA |-> Arg({"--nonuma"}, "nonuma", "flag", FALSE, FALSE),
   VERBOSE |-> Arg({"-v", "--verbose"}, "verbose", "flag", FALSE, FALSE),
   OVERRIDE_K |-> Arg({"--override-k"}, "override", "flag", FALSE, FALSE),
   ALT_FINGERPRINT |-> Arg({"-a", "--alt_fingerprint"}, "alt_fingerprint", "int", FALSE, NONE),
   EXCLUDE_FINAL_DIR |-> Arg({"-x", "--exclude_final_dir"}, "exclude_final_dir", "flag", FALSE, FALSE),
   CONNECT_TO_DAEMON |-> Arg({"-D", "--connect-to-daemon"}, "connect_to_daemon", "flag", FALSE, FALSE),
   BLADEBIT_NO_CPU_AFFINITY |->
     Arg({"--no-cpu-affinity"}, "no_cpu_affinity", "flag", FALSE, FALSE),
   BLADEBIT_CACHE |-> Arg({"--cache"}, "cache", "str", FALSE, NONE),
   BLADEBIT_F1_THREAD |-> Arg({"--f1-threads"}, "f1_threads", "int", FALSE, NONE),
   BLADEBIT_FP_THREAD |-> Arg({"--fp-threads"}, "fp_threads", "int", FALSE, NONE),
   BLADEBIT_C_THREAD |-> Arg({"--c-threads"}, "c_threads", "int", FALSE, NONE),
   BLADEBIT_P2_THREAD |-> Arg({"--p2-threads"}, "p2_threads", "int", FALSE, NONE),
   BLADEBIT_P3_THREAD |-> Arg({"--p3-threads"}, "p3_threads", "int", FALSE, NONE),
   BLADEBIT_ALTERNATE |-> Arg({"--alternate"}, "alternate", "flag", FALSE, FALSE),
   BLADEBIT_NO_T1_DIRECT |-> Arg({"--no-t1-direct"}, "no_t1_direct", "flag", FALSE, FALSE),
   BLADEBIT_NO_T2_DIRECT |-> Arg({"--no-t2-direct"}, "no_t2_direct", "flag", FALSE, FALSE),
   COMPRESSION |-> Arg({"--compress"}, "compress", "int", FALSE, 1),
   BLADEBIT_DEVICE_INDEX |-> Arg({"--device"}, "device", "int", FALSE, 0),
   BLADEBIT_HYBRID_128_MODE |-> Arg({"--disk-128"}, "disk_128", "flag", FALSE, FALSE),
   BLADEBIT_HYBRID_16_MODE |-> Arg({"--disk-16"}, "disk_16", "flag", FALSE, FALSE)]

\* The option lists chia_plotter_options ... bladebit_disk_plotter_options.
PlotterOptions ==
  [chiapos |-> {"TMP_DIR", "TMP_DIR2", "K", "MEMO", "ID", "BUFF", "NUM_BUCKETS",
                "STRIPE_SIZE", "NUM_THREADS", "NOBITFIELD", "OVERRIDE_K",
                "ALT_FINGERPRINT", "FARMERKEY", "POOLKEY", "PLOT_COUNT",
                "EXCLUDE_FINAL_DIR", "CONNECT_TO_DAEMON", "FINAL_DIR",
                "COMPRESSION"},
   madmax |-> {"K", "PLOT_COUNT", "NUM_THREADS", "NUM_BUCKETS",
               "MADMAX_NUM_BUCKETS_PHRASE3", "TMP_DIR", "TMP_DIR2",
               "MADMAX_WAITFORCOPY", "POOLKEY", "FARMERKEY", "MADMAX_TMPTOGGLE",
               "MADMAX_RMULTI2", "CONNECT_TO_DAEMON", "FINAL_DIR"},
   cudaplot |-> {"NUM_THREADS", "PLOT_COUNT", "FARMERKEY", "POOLKEY",
                 "CUDA_TMP_DIR", "ID", "BLADEBIT_WARMSTART", "BLADEBIT_NONUMA",
                 "BLADEBIT_NO_CPU_AFFINITY", "VERBOSE", "CONNECT_TO_DAEMON",
                 "FINAL_DIR", "COMPRESSION", "BLADEBIT_DEVICE_INDEX",
                 "BLADEBIT_HYBRID_128_MODE", "BLADEBIT_HYBRID_16_MODE"},
   ramplot |-> {"NUM_THREADS", "PLOT_COUNT", "FARMERKEY", "POOLKEY", "ID",
                "BLADEBIT_WARMSTART", "BLADEBIT_NONUMA",
                "BLADEBIT_NO_CPU_AFFINITY", "VERBOSE", "CONNECT_TO_DAEMON",
                "FINAL_DIR", "COMPRESSION"},
   diskplot |-> {"NUM_THREADS", "PLOT_COUNT", "FARMERKEY", "POOLKEY", "ID",
                 "BLADEBIT_WARMSTART", "BLADEBIT_NONUMA", "VERBOSE",
                 "CONNECT_TO_DAEMON", "FINAL_DIR", "BLADEBIT_NO_CPU_AFFINITY",
                 "BLADEBIT_CACHE", "BLADEBIT_F1_THREAD", "BLADEBIT_FP_THREAD",
                 "BLADEBIT_C_THREAD", "BLADEBIT_P2_THREAD", "BLADEBIT_P3_THREAD",
                 "BLADEBIT_ALTERNATE", "TMP_DIR", "TMP_DIR2", "NUM_BUCKETS",
                 "MEMO", "BLADEBIT_NO_T1_DIRECT", "BLADEBIT_NO_T2_DIRECT",
                 "COMPRESSION"}]

\* The arguments of subparser `name`.
Table(name) ==
  LET all == CoreOptions(name) @@ BladebitOptions
  IN {all[o] : o \in PlotterOptions[name]}

-----------------------------------------------------------------------------
(* ArgumentParser.parse_args of a subparser with arguments tab, as far as *)
(* the words the daemon writes reach it.  A parser that has an option     *)
(* string that looks like a negative number ("-2") reads every word       *)
(* starting with "-" as an option; one without reads "-2" and "-5" as     *)
(* plain values.  Any error (unknown option, missing or option-like      *)
(* value, bad int, value given to a switch, word left over, required     *)
(* option missing) ends the plotter with a usage message: ok is FALSE.   *)

\* _negative_number_matcher over the words and over the option strings
NegativeNumber(w) ==
  \/ w.opt = "" /\ IsInt(w.txt) /\ w.txt[1] = "-"
  \/ w.opt = "-2" /\ (w.txt = <<>> \/ IsDigit(w.txt))
HasNegativeNumberOption(tab) == \E a \in tab : "-2" \in a.flags

\* The word is read as an option string, not as a value.
OptionLike(w, tab) ==
  IF NegativeNumber(w) THEN HasNegativeNumberOption(tab) ELSE w.opt # ""

\* The text of a plain value word; the only flag word read as a value is
\* a negative number "-2...".
ValueText(w) == IF w.opt = "" THEN w.txt ELSE <<"-", "2">> \o w.txt

\* The argument's type= conversion of text s: [ok, v].
Convert(a, s) ==
  CASE a.kind = "int" -> [ok |-> IsInt(s), v |-> IF IsInt(s) THEN IntOf(s) ELSE NONE]
    [] a.kind = "str" -> [ok |-> TRUE, v |-> s]
    [] a.kind = "hex" -> [ok |-> s = <<>> \/ (Len(s) = 1 /\ s[1] \in Keys),
                          v |-> IF s = <<>> THEN <<>> ELSE s[1]]

Failed == [ok |-> FALSE, ns |-> <<>>]

\* Reading words ws with the values found so far in ns (NONE: not given);
\* at the end the required options must be given and the defaults fill
\* the rest.  A word "-kVALUE" whose option -k is known is -k with VALUE.
RECURSIVE ParseArgs(_, _, _)
ParseArgs(tab, ws, ns) ==
  IF ws = <<>>
  THEN IF \E a \in tab : a.req /\ ns[a.dest] = NONE THEN Failed
       ELSE [ok |-> TRUE,
             ns |-> [d \in DOMAIN ns |->
                       IF ns[d] # NONE THEN ns[d]
                       ELSE (CHOOSE a \in tab : a.dest = d).dflt]]
  ELSE LET w == Head(ws)
           m == {a \in tab : w.opt \in a.flags}
           a == CHOOSE x \in m : TRUE
           inline == w.txt # <<>>
           rest == IF inline THEN Tail(ws) ELSE Tail(Tail(ws))
           c == Convert(a, IF inline THEN w.txt ELSE ValueText(ws[2]))
       IN IF ~OptionLike(w, tab) \/ m = {} THEN Failed
          ELSE IF a.kind = "flag"
               THEN IF inline THEN Failed
                    ELSE ParseArgs(tab, Tail(ws), [ns EXCEPT ![a.dest] = TRUE])
          ELSE IF ~inline /\ (Len(ws) < 2 \/ OptionLike(ws[2], tab)) THEN Failed
          ELSE IF ~c.ok THEN Failed
          ELSE ParseArgs(tab, rest, [ns EXCEPT ![a.dest] = c.v])

\* call_plotters: the top parser picks the subparser by the first word, and
\* bladebit's own subparsers (required) by the second: [ok, name, ns].
ParseCommand(cmd) ==
  LET args == SubSeq(cmd, 3, Len(cmd))       \* after "corpochain plotters"
      word(j) == IF j <= Len(args) /\ args[j].opt = "" /\ Len(args[j].txt) = 1
                   THEN args[j].txt[1] ELSE NONE
      bb == word(1) = "bladebit"
      name == IF bb THEN word(2) ELSE word(1)
      known == name \in {"chiapos", "madmax"} \/
               (bb /\ name \in {"cudaplot", "ramplot", "diskplot"})
      tab == Table(name)
      p == ParseArgs(tab, SubSeq(args, IF bb THEN 3 ELSE 2, Len(args)),
                     [d \in {a.dest : a \in tab} |-> NONE])
  IN IF known /\ p.ok THEN [ok |-> TRUE, name |-> name, ns |-> p.ns]
     ELSE [ok |-> FALSE, name |-> name, ns |-> <<>>]

=============================================================================
