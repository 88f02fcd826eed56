----------------------------- MODULE MCGsasBuild -----------------------------
(***************************************************************************)
(* Every crystal system with every choice of its cell flags, beside a cubic *)
(* phase whose two atoms carry every choice of flags, in both orders of the *)
(* phases; the histogram's parameters; and peak fits of both modes.        *)
(***************************************************************************)
EXTENDS GsasBuild

Atom(label, adp, ids, uids, reading) ==
    [label |-> label, adp |-> adp, ids |-> ids, uids |-> uids, reading |-> reading]
Phase(name, laue, uniq, atoms) == [name |-> name, laue |-> laue, uniq |-> uniq, atoms |-> atoms]

\* (x, x, z), and the tensor of that site; a position fixed by symmetry
Tied == Atom("M", "Uaniso", <<1, 1, 2>>, <<1, 1, 2, 3, 4, 4>>, "right")
AtOrigin == Atom("O", "Uiso", <<0, 0, 0>>, <<0, 0, 0, 0, 0, 0>>, "right")
Misread == Atom("P", "Uiso", <<1, 1, 0>>, <<0, 0, 0, 0, 0, 0>>, "misread")
Unnamed == Atom("P", "Uiso", <<1, 1, 0>>, <<0, 0, 0, 0, 0, 0>>, "unnamed")
UnnamedAni == Atom("P", "Uaniso", <<1, 1, 0>>, <<1, 1, 2, 0, 0, 0>>, "unnamed")

Systems == {<<"m3m", "none">>, <<"4/mmm", "none">>, <<"3m1", "none">>, <<"3mR", "none">>, <<"mmm", "none">>,
            <<"2/m", "a">>, <<"2/m", "b">>, <<"2/m", "c">>, <<"-1", "none">>}

Base(spf, useIP, simulation, coefficients, bkPeaks, peaks, phases) ==
    [spf |-> spf, useIP |-> useIP, simulation |-> simulation, coefficients |-> coefficients,
     bkPeaks |-> bkPeaks, peaks |-> peaks, phases |-> phases, flagged |-> {}]
Flag(r, leaves) == [r EXCEPT !.flagged = leaves]

Cells ==
    UNION {LET ph  == Phase("A", s[1], s[2], <<AtOrigin, Tied>>)
               ph2 == Phase("B", "m3", "none", <<AtOrigin, Tied>>)
               xyz == {AtomLeaf(ph2, Tied, k) : k \in {"x", "y"}}
           IN  {Flag(Base(FALSE, FALSE, FALSE, 2, 0, 0, phs),
                     UNION {{CellLeaf(ph, k) : k \in g} : g \in groups} \cup more) :
                  groups \in SUBSET CellTies(ph),
                  phs \in {<<ph, ph2>>, <<ph2, ph>>},
                  more \in {{}, xyz}}
           : s \in Systems}

Atoms ==
    LET ph == Phase("A", "mmm", "none", <<AtOrigin, Tied>>)
        r  == Base(FALSE, FALSE, FALSE, 1, 0, 0, <<ph>>)
    IN  {Flag(r, UNION ties) : ties \in SUBSET (AtomTies(ph, Tied) \cup {{AtomLeaf(ph, AtOrigin, "Uiso")}})}

Sites ==
    UNION {LET ph == Phase("A", "mmm", "none", <<AtOrigin, at>>)
           IN  {Flag(Base(FALSE, FALSE, FALSE, 1, 0, 0, <<ph>>), f) : f \in {{}} \cup AtomTies(ph, at)}
           : at \in {Misread, Unnamed, UnnamedAni}}

Histograms ==
    LET ph == Phase("A", "m3m", "none", <<AtOrigin>>)
    IN  {Flag(Base(FALSE, FALSE, sim, 4, 1, 0, <<ph>>),
              {InstrumentLeaf(k) : k \in inst}
              \cup (IF back THEN {CoefficientLeaf(i) : i \in 0 .. 3} ELSE {})
              \cup {PeakLeaf("background", k, 0) : k \in pk}
              \cup {PhaseLeaf(ph, k) : k \in hap}) :
           sim, back \in BOOLEAN, inst \in SUBSET {"U", "Zero", "Lam"}, pk \in SUBSET {"pos", "sig"},
           hap \in SUBSET {"scale", "size_LG_eta", "ratio"}}

PeakFits ==
    {Flag(Base(TRUE, ip, FALSE, 2, 1, 2, <<>>),
          {InstrumentLeaf(k) : k \in inst} \cup {PeakLeaf("single_peaks", k, 1) : k \in pk}
          \cup (IF back THEN {CoefficientLeaf(i) : i \in 0 .. 1} ELSE {})) :
        ip, back \in BOOLEAN, inst \in SUBSET {"U", "Polariz.", "SH/L"}, pk \in SUBSET PeakLists}

MCRecipes == Cells \cup Atoms \cup Sites \cup Histograms \cup PeakFits
==============================================================================
