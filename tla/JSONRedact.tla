----------------------------- MODULE JSONRedact -----------------------------
(***************************************************************************)
(* jsonredact: the fields that a path names, and the keys that are         *)
(* sensitive at any depth, are replaced by the mask in a JSON value.       *)
(* A value is a tree; every mask is the same mark, every text keeps its    *)
(* content.                                                                *)
(***************************************************************************)
EXTENDS Naturals, Sequences, FiniteSets

CONSTANTS Builtin   \* keys that logutil.IsSensitiveKey accepts

Text(v) == [kind |-> "text", val |-> v]
Num == [kind |-> "num"]
Null == [kind |-> "null"]
Obj(f) == [kind |-> "obj", fields |-> f]
Arr(s) == [kind |-> "arr", items |-> s]
Mask == Text("mask")

Star == "*"

\* Keys are compared in lower case; "Card" is the one that is not.
ToLower(k) == IF k = "Card" THEN "card" ELSE k

-----------------------------------------------------------------------------
RECURSIVE RedactPath(_, _)
RedactPath(d, path) ==
  IF path = <<>> THEN d
  ELSE IF d.kind = "obj" THEN
    IF Len(path) = 1
      THEN Obj([k \in DOMAIN d.fields |-> IF k = path[1] THEN Mask ELSE d.fields[k]])
      ELSE Obj([k \in DOMAIN d.fields |->
                  IF path[1] \in {Star, k} THEN RedactPath(d.fields[k], Tail(path))
                  ELSE d.fields[k]])
  ELSE IF d.kind = "arr" THEN
    Arr([i \in DOMAIN d.items |->
           RedactPath(d.items[i], IF path[1] = Star THEN Tail(path) ELSE path)])
  ELSE d

\* RedactKeys and RedactSensitiveKeys are one walk over different sets of keys.
RECURSIVE redactKeysWalk(_, _)
redactKeysWalk(d, keys) ==
  IF d.kind = "obj" THEN
    Obj([k \in DOMAIN d.fields |->
           IF ToLower(k) \in keys THEN Mask ELSE redactKeysWalk(d.fields[k], keys)])
  ELSE IF d.kind = "arr" THEN
    Arr([i \in DOMAIN d.items |-> redactKeysWalk(d.items[i], keys)])
  ELSE d

RECURSIVE RedactPaths(_, _)
RedactPaths(d, paths) ==
  IF paths = <<>> THEN d ELSE RedactPaths(RedactPath(d, Head(paths)), Tail(paths))

\* The configured keys replace the built-in ones.
Lookup(keys) == IF keys = {} THEN Builtin ELSE {ToLower(k) : k \in keys}

ParseAndRedactJSON(d, cfg) ==
  redactKeysWalk(RedactPaths(d, cfg.paths), Lookup(cfg.keys))

-----------------------------------------------------------------------------
\* The reference: the places of a tree, and which of them a configuration
\* hides.  A place is the sequence of steps that leads to it.

Key(k) == [key |-> k, index |-> 0]
Index(i) == [key |-> "", index |-> i]

Steps(d) == CASE d.kind = "obj" -> {Key(k) : k \in DOMAIN d.fields}
              [] d.kind = "arr" -> {Index(i) : i \in DOMAIN d.items}
              [] OTHER -> {}
Child(d, s) == IF d.kind = "obj" THEN d.fields[s.key] ELSE d.items[s.index]

RECURSIVE Places(_)
Places(d) == {<<>>} \cup UNION {{<<s>> \o p : p \in Places(Child(d, s))} : s \in Steps(d)}

RECURSIVE Sub(_, _)
Sub(d, place) == IF place = <<>> THEN d ELSE Sub(Child(d, Head(place)), Tail(place))

\* An index is skipped, or taken by a star; the last element names a key.
RECURSIVE Names(_, _)
Names(path, place) ==
  /\ path # <<>> /\ place # <<>>
  /\ IF place[1].index > 0
       THEN Names(IF path[1] = Star THEN Tail(path) ELSE path, Tail(place))
     ELSE IF Len(path) = 1 THEN place = <<Key(path[1])>>
     ELSE path[1] \in {Star, place[1].key} /\ Names(Tail(path), Tail(place))

\* The field at the place is replaced as a whole.
Hidden(cfg, place) ==
  /\ place # <<>>
  /\ \/ \E n \in DOMAIN cfg.paths : Names(cfg.paths[n], place)
     \/ ToLower(place[Len(place)].key) \in Lookup(cfg.keys)

Covered(cfg, place) == \E n \in 1..Len(place) : Hidden(cfg, SubSeq(place, 1, n))
=============================================================================
