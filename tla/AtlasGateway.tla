----------------------------- MODULE AtlasGateway -----------------------------
(***************************************************************************)
(* atlasctl's editing of the shared gateway.yaml (pkg/gateway): the file   *)
(* is a sequence of lines and its listeners are found by their text.       *)
(* Blank lines are layout and left out.                                    *)
(***************************************************************************)
EXTENDS Naturals, Sequences

CONSTANTS
  Names,    \* application names, those of the platform's listeners included
  NoName,   \* a line that does not start a listener
  Prefixes  \* the pairs <<a, b>> such that the text of b starts with that of a

ASSUME GatewayAssumption ==
  /\ NoName \notin Names
  /\ Prefixes \subseteq Names \X Names
  /\ \A a \in Names : <<a, a>> \in Prefixes

(* An outer line is indented by at most four spaces: a heading, or the     *)
(* marker "    - name: https-<app>" of a listener.  The inner lines carry  *)
(* the listener's port, hostname and certificate.                          *)
Line == [kind : {"outer", "inner"}, name : Names \cup {NoName}]
Heading == [kind |-> "outer", name |-> NoName]
Marker(a) == [kind |-> "outer", name |-> a]
Body(a) == [kind |-> "inner", name |-> a]

IsMarker(l) == l.kind = "outer" /\ l.name # NoName
Listeners(f) == {f[i].name : i \in {j \in DOMAIN f : IsMarker(f[j])}}

RenderListener(a) == <<Marker(a), Body(a)>>

(* Mistake: one listener is as good as another. *)
AnyListener(f, a) == Listeners(f) # {}

(* strings.Contains: any marker that starts with a's is a's. *)
HasListenerInFile(f, a) ==
  \E i \in DOMAIN f : IsMarker(f[i]) /\ <<a, f[i].name>> \in Prefixes

(* The block goes to the end of the file, where the listeners are. *)
AppendListenerToFile(f, a) == f \o RenderListener(a)

(* Where the block that starts at line i ends: at the next outer line. *)
BlockEnd(f, i) ==
  CHOOSE j \in i + 1 .. Len(f) + 1 :
    /\ j = Len(f) + 1 \/ f[j].kind = "outer"
    /\ \A k \in i + 1 .. j - 1 : f[k].kind # "outer"

(* Mistakes: nothing is removed; the first marker that merely starts with  *)
(* a's goes; the marker goes without its block.                            *)
RemoveNothing(f, a) == f

RemoveByPrefix(f, a) ==
  IF ~ HasListenerInFile(f, a) THEN f
  ELSE LET i == CHOOSE j \in DOMAIN f : IsMarker(f[j]) /\ <<a, f[j].name>> \in Prefixes
       IN SubSeq(f, 1, i - 1) \o SubSeq(f, BlockEnd(f, i), Len(f))

RemoveMarkerOnly(f, a) ==
  IF a \notin Listeners(f) THEN f
  ELSE LET i == CHOOSE j \in DOMAIN f : f[j] = Marker(a)
       IN SubSeq(f, 1, i - 1) \o SubSeq(f, i + 1, Len(f))

(* The first line that is exactly a's marker goes, and its block with it. *)
RemoveListenerFromFile(f, a) ==
  IF a \notin Listeners(f) THEN f
  ELSE LET i == CHOOSE j \in DOMAIN f :
                  f[j] = Marker(a) /\ \A k \in 1 .. j - 1 : f[k] # Marker(a)
       IN SubSeq(f, 1, i - 1) \o SubSeq(f, BlockEnd(f, i), Len(f))

(* A marker is followed by its own block, a block has its marker, and no   *)
(* listener is there twice.                                                *)
WellFormed(f) ==
  /\ \A i \in DOMAIN f :
       /\ IsMarker(f[i]) => i + 1 \in DOMAIN f /\ f[i + 1] = Body(f[i].name)
       /\ f[i].kind = "inner" => i - 1 \in DOMAIN f /\ f[i - 1] = Marker(f[i].name)
  /\ \A i, j \in DOMAIN f : IsMarker(f[i]) /\ f[i] = f[j] => i = j

=============================================================================
