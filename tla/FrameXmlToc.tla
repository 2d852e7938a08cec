------------------------------ MODULE FrameXmlToc ------------------------------
(***************************************************************************)
(* ContentFrameXml: the client's list of interface files, FrameXML.toc,    *)
(* composed for a build out of the stock list and the load entries of its  *)
(* packages.  An entry adds one file and names the file it loads after,    *)
(* which is a stock file or another entry's.  When packages declare names  *)
(* of dungeon floors, one generated module is loaded as well.              *)
(*                                                                         *)
(* Paths are their case-folded forms, and are numbers: siblings are loaded *)
(* in the order of their paths.                                            *)
(***************************************************************************)
EXTENDS Naturals, Sequences, FiniteSets

CONSTANTS
  File,    \* paths below Interface/FrameXML
  Stock,   \* the pinned stock list: paths and comment lines
  Marker,  \* the comment that modules are to be added above
  Toc,     \* the path of the list itself
  Module   \* the path of the generated module

LoadEntry == [target : File, after : File]

ASSUME TocAssumption ==
  /\ File \subseteq Nat /\ IsFiniteSet(File)
  /\ Stock \in Seq(File \cup {Marker})
  /\ Marker \notin File
  /\ {Toc, Module} \subseteq File

Occurrences(line) == Cardinality({i \in DOMAIN Stock : Stock[i] = line})

Added(loads) == {e.target : e \in loads}

\* Mutant: cycles are not looked for.
OrderedWithoutVisit(loads) == TRUE

\* Entries may follow each other, but not in a circle.
Ordered(loads) ==
  \A S \in (SUBSET loads) \ {{}} : \E e \in S : e.after \notin Added(S)

\* ComposeToc refuses a list that would not load each file once, after the
\* one file it is to follow.
Composes(loads, labelled) ==
  /\ \A e, f \in loads : e.target = f.target => e = f
  /\ Added(loads) \cap ({Toc} \cup IF labelled THEN {Module} ELSE {}) = {}
  /\ \A e \in loads :
       /\ Occurrences(e.target) = 0
       /\ Occurrences(e.after) < 2
       /\ Occurrences(e.after) = 1 \/ e.after \in Added(loads)
  /\ Ordered(loads)
  /\ Occurrences(Module) = 0
  /\ labelled => Occurrences(Marker) = 1

Following(loads, line) == {e.target : e \in {f \in loads : f.after = line}}

Least(T) == CHOOSE t \in T : \A u \in T : t <= u

\* Files in the order of their paths, each followed by what is to follow it.
Emitted(loads) ==
  LET emit[T \in SUBSET Added(loads)] ==
        IF T = {} THEN <<>>
        ELSE <<Least(T)>> \o emit[Following(loads, Least(T))] \o emit[T \ {Least(T)}]
  IN  emit

\* What comes after a stock line: its additions and, after the marker, the
\* generated module.
Additions(loads, labelled, line) ==
  Emitted(loads)[Following(loads, line)] \o IF labelled /\ line = Marker THEN <<Module>> ELSE <<>>

\* The stock lines as they are, each followed by its additions.
Lines(loads, labelled) ==
  LET lines[i \in 0 .. Len(Stock)] ==
        IF i = 0 THEN <<>>
        ELSE lines[i - 1] \o <<Stock[i]>> \o Additions(loads, labelled, Stock[i])
  IN  lines

Composed(loads, labelled) == Lines(loads, labelled)[Len(Stock)]

\* ValidateTargets, and the ownership of the generated files: every entry's
\* file is shipped by some package, and no package ships a generated one.
Covered(loads, labelled, targets) ==
  /\ Added(loads) \subseteq targets
  /\ targets \cap ({Toc} \cup IF labelled THEN {Module} ELSE {}) = {}

-----------------------------------------------------------------------------
(* What a composed list has to be.                                         *)

\* Every entry's file is loaded once, somewhere after the file it follows.
InPlace(toc, e) ==
  \E i \in DOMAIN toc :
    /\ {h \in DOMAIN toc : toc[h] = e.target} = {i}
    /\ \E h \in 1 .. i - 1 : toc[h] = e.after

\* The stock list with nothing lost or moved, and nothing else added: its
\* lines have places in the list, in their order, and the other places hold
\* the new lines, one each.
Extends(toc, loads, labelled) ==
  LET new == Added(loads) \cup (IF labelled THEN {Module} ELSE {})
  IN  /\ \E place \in [DOMAIN Stock -> DOMAIN toc] :
           /\ \A i, j \in DOMAIN Stock : i < j => place[i] < place[j]
           /\ \A i \in DOMAIN Stock : toc[place[i]] = Stock[i]
           /\ \A h \in DOMAIN toc : toc[h] \in new \/ \E i \in DOMAIN Stock : h = place[i]
      /\ \A line \in new : \E h \in DOMAIN toc : {g \in DOMAIN toc : toc[g] = line} = {h}
      /\ \A e \in loads : InPlace(toc, e)
      /\ labelled => \E h \in DOMAIN toc \ {1} : toc[h] = Module /\ toc[h - 1] = Marker
=============================================================================
