---------------------------- MODULE NetworkFiles ----------------------------
(***************************************************************************)
(* Loading the engine's networks (nnue.cpp: load_file, load and the two    *)
(* parsers; eval.cpp: init; uci.cpp: setoption EvalFile).                  *)
(*                                                                         *)
(* A parser writes each section into the weights of its architecture as it *)
(* reads it and judges the file only afterwards, so a bad file leaves its  *)
(* traces.  A file has a version, a length, and after header and           *)
(* description its sections; a unit of a file is the word of its place.    *)
(* Of a section it matters which units fill it, and whether it is copied   *)
(* as a whole or element by element, an element past the end being 0.      *)
(***************************************************************************)
EXTENDS Integers, FiniteSets, SequencesExt

CONSTANTS
    Disc,           \* the files by name: version, size, ftHash, stackHash, where the header
                    \* says the sections start, and where the reader stands after it
    Names,          \* the names a user may give, of files that exist or not
    Installations   \* the four names Eval::init tries, in turn, as they may be found

VARIABLES
    defaults,         \* the installation
    weights,          \* per architecture and section: what fills each unit
    g_arch, g_loaded,
    lastLoad,         \* the last load: the file that was loaded, and the load's result
    parsedSince       \* the files parsed since a network was last loaded

filesVars == <<defaults, weights, g_arch, g_loaded, lastLoad, parsedSince>>

HALFKP == "HalfKP"
HALFKAV2_HM == "HalfKAv2_hm"
NoArch == "none"
NoFile == "no file"
Zero == <<"zero">>
Unset == <<"unset">>

Section(name, size, bulk) == [name |-> name, size |-> size, bulk |-> bulk]
\* The hashes are read and kept nowhere.
Layout == [a \in {HALFKP, HALFKAV2_HM} |->
    IF a = HALFKP
    THEN <<Section("ft hash", 1, FALSE), Section("ft_bias", 1, FALSE), Section("ft_weight", 2, TRUE),
           Section("hash", 1, FALSE), Section("l0", 2, FALSE), Section("out", 1, FALSE)>>
    ELSE <<Section("ft hash", 1, FALSE), Section("v4_ft_bias", 1, TRUE), Section("v4_ft_weight", 2, TRUE),
           Section("v4_psqt_weight", 1, TRUE), Section("hash", 1, FALSE), Section("stack 0", 1, TRUE),
           Section("hash", 1, FALSE), Section("stack 1", 1, TRUE)>>]
Kept(section) == section.name \notin {"ft hash", "hash"}

\* Where section i begins in a sound file, counted from the end of the description.
Offset(a, i) == FoldLeft(LAMBDA n, s : n + s.size, 0, SubSeq(Layout[a], 1, i - 1))

----------------------------------------------------------------------------
(* The reader: past the end nothing is read, and ok is lost for good.        *)

Fits(r, n) == r.pos + n <= Disc[r.file].size
Unit(r) == <<r.file, r.pos>>

\* A section into its array w, unit by unit or as a whole.
Elements(r, n) ==
    FoldLeft(LAMBDA at, u : IF Fits(at.r, 1)
                            THEN [r |-> [at.r EXCEPT !.pos = @ + 1], w |-> Append(at.w, Unit(at.r))]
                            ELSE [r |-> [at.r EXCEPT !.ok = FALSE], w |-> Append(at.w, Zero)],
             [r |-> r, w |-> <<>>], [u \in 1 .. n |-> u])
Bulk(r, n, w) == IF Fits(r, n)
                 THEN [r |-> [r EXCEPT !.pos = @ + n], w |-> [u \in 1 .. n |-> <<r.file, r.pos + u - 1>>]]
                 ELSE [r |-> [r EXCEPT !.ok = FALSE], w |-> w]

\* A word read where a hash should stand: the file's own there, another elsewhere.
HashRead(r, a, i) ==
    IF ~Fits(r, 1) THEN Zero
    ELSE IF r.pos # Disc[r.file].start + Offset(a, i) THEN Unit(r)
    ELSE IF i = 1 THEN <<Disc[r.file].ftHash>> ELSE <<Disc[r.file].stackHash[i]>>

\* parse_halfkp and parse_v4: p has the reader, the weights and whether it goes on;
\* the modern parser stops at a hash that is not the expected one, or the first's.
Expected(p, a, i) ==
    \/ a = HALFKP \/ Layout[a][i].name \notin {"ft hash", "hash"}
    \/ i = 1 /\ HashRead(p.r, a, i) = <<"FT hash">>
    \/ i > 1 /\ p.hash \in {<<>>, HashRead(p.r, a, i)}
ParseSection(p, a, i) ==
    LET s == Layout[a][i]
        read == IF s.bulk THEN Bulk(p.r, s.size, p.w[s.name]) ELSE Elements(p.r, s.size)
    IN  IF ~p.on THEN p
        ELSE IF ~Expected(p, a, i) THEN [p EXCEPT !.on = FALSE]
        ELSE IF Kept(s) THEN [p EXCEPT !.r = read.r, !.w[s.name] = read.w]
        ELSE [p EXCEPT !.r = read.r, !.hash = IF a = HALFKAV2_HM /\ i > 1 /\ @ = <<>> THEN HashRead(p.r, a, i) ELSE @]

\* Mutant: only the length of what was read counts.
Accepted_length(p) == p.on /\ p.r.pos = Disc[p.r.file].size
Accepted(p) == p.on /\ p.r.ok /\ p.r.pos = Disc[p.r.file].size

\* The state of the loader after load_file(name).
Now == [weights |-> weights, g_arch |-> g_arch, g_loaded |-> g_loaded, last |-> lastLoad, parsed |-> parsedSince]
load_file(n, name) ==
    LET f == Disc[name]
        reader == [file |-> name, pos |-> f.after, ok |-> f.after = f.start]
        a == f.version
        p == FoldLeft(LAMBDA q, i : ParseSection(q, a, i),
                      [r |-> reader, w |-> n.weights[a], on |-> TRUE, hash |-> <<>>],
                      [i \in DOMAIN Layout[a] |-> i])
        parsed == [n EXCEPT !.weights[a] = p.w]
    IN  IF name \notin DOMAIN Disc \/ f.version \notin DOMAIN Layout
        THEN [n EXCEPT !.last = [file |-> NoFile, ok |-> FALSE]]
        ELSE IF Accepted(p)
        THEN [parsed EXCEPT !.g_arch = a, !.g_loaded = TRUE, !.parsed = {},
                            !.last = [file |-> name, ok |-> TRUE]]
        ELSE [parsed EXCEPT !.parsed = @ \cup {name}, !.last = [file |-> NoFile, ok |-> FALSE]]

\* load: the result is that of the name given, whatever the fallbacks do.
load(n, name) ==
    LET first == load_file(n, name)
    IN  IF first.last.ok \/ first.g_loaded THEN first
        ELSE [FoldLeft(LAMBDA k, fb : IF k.last.ok \/ fb = name THEN k ELSE load_file(k, fb),
                       first, SubSeq(defaults, 3, 4))
                EXCEPT !.last.ok = FALSE]

Becomes(n) == /\ weights' = n.weights /\ g_arch' = n.g_arch /\ g_loaded' = n.g_loaded
              /\ lastLoad' = n.last /\ parsedSince' = n.parsed
              /\ UNCHANGED defaults

----------------------------------------------------------------------------
\* Before Eval::init no array has been allocated.
LoadInit ==
    /\ defaults \in Installations
    /\ weights = [a \in DOMAIN Layout |->
                     LET kept == {i \in DOMAIN Layout[a] : Kept(Layout[a][i])}
                     IN  [name \in {Layout[a][i].name : i \in kept} |-> <<Unset>>]]
    /\ g_arch = NoArch /\ g_loaded = FALSE
    /\ lastLoad = [file |-> "Eval::init", ok |-> FALSE] /\ parsedSince = {}

\* Eval::init: the names in turn until a load succeeds.
InitEval ==
    /\ lastLoad.file = "Eval::init"
    /\ Becomes(FoldLeft(LAMBDA n, name : IF n.last.ok THEN n ELSE load(n, name), Now, defaults))

\* setoption name EvalFile, between searches, as the protocol has it; the code does
\* not wait for one to end.
SetEvalFile(name) == lastLoad.file # "Eval::init" /\ Becomes(load(Now, name))

LoadNext == InitEval \/ \E name \in Names : SetEvalFile(name)

----------------------------------------------------------------------------
Good(name) ==
    LET f == Disc[name]
        a == f.version
    IN  /\ name \in DOMAIN Disc /\ a \in DOMAIN Layout
        /\ f.after = f.start /\ f.size = f.start + Offset(a, Len(Layout[a]) + 1)
        /\ a = HALFKAV2_HM => f.ftHash = "FT hash" /\ \A i, j \in DOMAIN f.stackHash : f.stackHash[i] = f.stackHash[j]

\* What section i of architecture a holds when it is file name's own.
OwnSection(name, a, i) == [u \in 1 .. Layout[a][i].size |-> <<name, Disc[name].start + Offset(a, i) + u - 1>>]

KeptOf(a) == {i \in DOMAIN Layout[a] : Kept(Layout[a][i])}

\* The network in use is file name's, word for word.
Whole(name) ==
    \A i \in KeptOf(g_arch) : weights[g_arch][Layout[g_arch][i].name] = OwnSection(name, g_arch, i)

\* A load that reports success has put the whole of one sound file, and nothing of
\* another, into the weights of the architecture that is now in use, and a sound
\* file never fails to load; a file that fails, however it is cut short or wrong,
\* leaves the network in use as it was unless it is of the same architecture, and
\* then only it or its zeros show; and the engine starts with a network where one
\* of its own is sound.  (nnue.cpp: parse_halfkp, parse_v4, load_file, load)
LoadsSound ==
    LET sameArch == {name \in parsedSince : Disc[name].version = g_arch}
        started == lastLoad.file # "Eval::init"
    IN  /\ g_loaded <=> g_arch # NoArch
        /\ lastLoad.ok => Good(lastLoad.file) /\ g_arch = Disc[lastLoad.file].version /\ Whole(lastLoad.file)
        /\ \A name \in parsedSince : ~Good(name)
        /\ started /\ (\E name \in ToSet(defaults) : Good(name)) => g_loaded
        /\ g_loaded /\ sameArch = {} => \E name \in DOMAIN Disc : Good(name) /\ Whole(name)
        /\ g_loaded => \E name \in {d \in DOMAIN Disc : Good(d) /\ Disc[d].version = g_arch} :
             \A i \in KeptOf(g_arch) :
               LET held == weights[g_arch][Layout[g_arch][i].name]
               IN  \A u \in DOMAIN held : \/ held[u] = OwnSection(name, g_arch, i)[u]
                                          \/ held[u] = Zero /\ sameArch # {}
                                          \/ \E b \in sameArch : held[u][1] = b

\* What evaluates positions is always the whole of one sound file: a load that fails
\* after it has overwritten weights is followed by a reload of a good network, as the
\* comment on load_file has it (nnue.cpp: load_file, load).
InUseIsWhole == g_loaded => \E name \in DOMAIN Disc : Good(name) /\ Whole(name)
=============================================================================
