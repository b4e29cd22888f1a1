------------------------------ MODULE Symbols ------------------------------
(***************************************************************************)
(* Names for stack frames (crates/sdk/src/symbols.rs).  One resolver serves *)
(* every event: it maps an image once and remembers each address it looked  *)
(* up, both under its own mapping, which is the same wherever a process     *)
(* loaded the image.  export.rs and app.rs say which modules it is given.   *)
(***************************************************************************)
EXTENDS Analyze

CONSTANT Mapping \* image path -> [base, size, symbols]: where LoadLibraryEx puts
                 \* an image that can be loaded, and its symbols: offset -> name

NewResolver == [modules |-> {}, cache |-> <<>>]

Owner(mods, addr) ==
  LET hits == {i \in DOMAIN mods : Spans(mods[i], addr)}
  IN IF hits = {} THEN NoRow ELSE mods[Min(hits)]

EnsureLoaded(r, path) == [r EXCEPT !.modules = @ \union {path}]

\* SymFromAddr: the last symbol at or below the address, in the image around it.
SymbolsOf(path) == {[at |-> Mapping[path].base + o, name |-> Mapping[path].symbols[o]] :
                      o \in DOMAIN Mapping[path].symbols}
Nearest(below, at, module) ==
  LET s == CHOOSE s \in below : \A t \in below : t.at <= s.at
  IN IF below = {} THEN None ELSE Some(module \o <<s.name, at - s.at>>)
Lookup(r, at, module) ==
  Nearest({s \in UNION {SymbolsOf(p) : p \in {q \in r.modules : Spans(Mapping[q], at)}} :
             s.at <= at},
          at, module)

Remember(r, at, name) == [r |-> [r EXCEPT !.cache = (at :> name) @@ @], name |-> name]
ResolveAt(r, at, module) ==
  Remember(r, at, IF at \in DOMAIN r.cache THEN r.cache[at] ELSE Lookup(r, at, module))
ResolveIn(r, addr, m) ==
  IF m = NoRow \/ m.path \notin DOMAIN Mapping THEN [r |-> r, name |-> None]
  ELSE ResolveAt(EnsureLoaded(r, m.path), Mapping[m.path].base + (addr - m.base),
                 Basename(m.path))
Resolve(r, addr, mods) == ResolveIn(r, addr, Owner(mods, addr))

\* The detail panel searches the process's modules, then the kernel's.
ResolveForPanel(r, addr, procMods, kernelMods) == Resolve(r, addr, procMods \o kernelMods)
\* The XML export searches one of the two, by the half the address is in.
FrameLocation(r, addr, procMods, kernelMods) ==
  Resolve(r, addr, IF IsKernelAddress(addr) THEN kernelMods ELSE procMods)

NextName(names, answer) == [r |-> answer.r, names |-> Append(names, answer.name)]
\* The frames of one event after those of another, through one resolver.
ResolveFrames(r, addrs, Ask(_, _)) ==
  FoldLeft(LAMBDA acc, addr : NextName(acc.names, Ask(acc.r, addr)),
           [r |-> r, names |-> <<>>], addrs)
=============================================================================
