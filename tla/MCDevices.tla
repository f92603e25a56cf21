----------------------------- MODULE MCDevices -----------------------------
(***************************************************************************)
(* The parts of the kernel that share no state with each other, each on    *)
(* its own: `focus' is the one that moves.  Interleaving them would        *)
(* multiply the states and show nothing more.  The screens are looked at   *)
(* four times, each time with what one kind of user does with them, and    *)
(* the console twice, with one process that prints and with two.           *)
(***************************************************************************)
EXTENDS Queue, SerialLine, Heap, Probe, Ethernet, Pci, Screens, Fat64,
        Console, Format

VARIABLE focus

\* Three queues, one of each discipline the kernel resets a queue with: a ready
\* queue, a queue of waiting processes and the sleep queue.
MCDiscipline == [q \in {"ready", "waiting", "sleep"} |->
                   CASE q = "ready" -> "fifo" [] q = "waiting" -> "equal" [] q = "sleep" -> "le"]

MCEntries == {[key |-> 1, data |-> "a"], [key |-> 1, data |-> "b"], [key |-> 2, data |-> "c"]}

MCTexts == {<<"a", "b">>, <<"b", "a", "b">>}

\* One chunk; and two with the video memory between them.
MCMaps == {8..18, (1..4) \cup (7..8) \cup (11..15)}

\* A window with a column right of it and a line above; and one of a single line.
MCScrolls == {<<0, 1, 1, 99>>, <<0, 2, 99, 99>>}

\* Functions a bus of the constants' size may have: bases of their own for each place.
MCPlace(a) == 4 * a[1] + 2 * a[2]
MCNic(a, multi) ==
  [class |-> "nic", multi |-> multi,
   bars |-> [i \in BarIndices |->
     CASE i = 0 -> Bar("mem", 100 + MCPlace(a)) [] i = 1 -> Bar("io", 50000 + 64 * MCPlace(a))
       [] i = 2 -> Bar("mem", 200 + MCPlace(a)) [] OTHER -> NO_BAR]]
MCIde(a, multi, native) ==
  [class |-> "ide", multi |-> multi,
   bars |-> [i \in BarIndices |->
     IF i # BAR_BM /\ ~ native THEN NO_BAR ELSE Bar("io", 50000 + 64 * MCPlace(a) + 8 * i)]]
MCBridge(multi) == [class |-> "bridge", multi |-> multi, bars |-> [i \in BarIndices |-> NO_BAR]]

MCFunctions(a) ==
  {ABSENT, MCIde(a, FALSE, FALSE), MCBridge(TRUE)}
    \cup {MCNic(a, m) : m \in BOOLEAN} \cup {MCIde(a, m, TRUE) : m \in BOOLEAN}

\* A second function needs a first one that says so; of controllers at the ports of old
\* there is one at most, of all controllers two.
MCBuses ==
  LET slot(n) == {f \in MCFunctions(<<n, 0>>) \X MCFunctions(<<n, 1>>) :
                    f[1] = ABSENT \/ ~ f[1].multi => f[2] = ABSENT}
      all == {[a \in PciAddresses |-> IF a[1] = 0 THEN f[a[2] + 1] ELSE g[a[2] + 1]] :
                f \in slot(0), g \in slot(1)}
      controllers(b) == {a \in PciAddresses : b[a].class = "ide"}
  IN  {b \in all : /\ Cardinality(controllers(b)) <= 2
                   /\ Cardinality({a \in controllers(b) : b[a].bars[0] = NO_BAR}) <= 1}

\* Every number in each base, and a few in fields of all kinds with other output behind.
MCField(type, left, zero, width, value) ==
  [type |-> type, left |-> left, zero |-> zero, width |-> width, value |-> value]
MCPrinted ==
  {<<>>}
  \cup {<<MCField(t, FALSE, FALSE, 0, v)>> : t \in {"d", "x", "o"}, v \in Ints}
  \cup {<<MCField(t, l, z, w, v), [type |-> "char", char |-> "a"], MCField("d", FALSE, FALSE, 0, -7)>> :
          t \in {"d", "x", "o"}, l \in BOOLEAN, z \in BOOLEAN, w \in {1, 3, 10}, v \in {-128, 0, 9, 100}}
  \cup {<<MCField("x", FALSE, FALSE, 0, 10), [type |-> "cut", left |-> l, zero |-> z, width |-> w]>> :
          l \in BOOLEAN, z \in BOOLEAN, w \in {0, 12}}

lineVars == <<queueVars, serialVars>>
memoryVars == <<heapVars, kallocVars>>
cardVars == <<probeVars, etherVars, pciVars>>
textVars == <<consoleVars, formatVars>>
vars == <<focus, lineVars, memoryVars, cardVars, screenVars, fat64Vars, textVars>>

Foci == {"queue", "serial input", "serial output", "heap", "kalloc", "probe", "ethernet", "bus",
         "screens", "keyboard", "mouse", "drawing", "files", "text", "texts", "format"}

\* Where a component can begin in several states, it does so when it is the one to move.
Init ==
  /\ focus \in Foci
  /\ QueueInit
  /\ SerialInit
  /\ HeapInit /\ (focus = "heap" \/ freelist = 8)
  /\ KallocInit
  /\ ProbeInit /\ (focus = "probe" \/ wired = I8255X_DEFAULT_IRQ)
  /\ EtherInit
  /\ PciInit
  /\ focus = "bus" \/ (firmware = [a \in PciAddresses |-> ABSENT] /\ config.bars[0] = NO_BAR)
  /\ ScreensInit
  /\ Fat64Init
  /\ ConsoleInit /\ (focus \in {"text", "texts"} \/ scroll.min_y = 1)
  /\ FormatInit /\ (focus = "format" \/ asked = <<>>)

Next ==
  /\ UNCHANGED focus
  /\ \/ /\ focus = "queue"
        /\ QueueNext
        /\ UNCHANGED <<serialVars, memoryVars, cardVars, screenVars, fat64Vars, textVars>>
     \/ /\ focus = "serial input"
        /\ SerialInput
        /\ UNCHANGED <<queueVars, memoryVars, cardVars, screenVars, fat64Vars, textVars>>
     \/ /\ focus = "serial output"
        /\ SerialOutput
        /\ UNCHANGED <<queueVars, memoryVars, cardVars, screenVars, fat64Vars, textVars>>
     \/ /\ focus = "heap"
        /\ HeapNext
        /\ UNCHANGED <<lineVars, kallocVars, cardVars, screenVars, fat64Vars, textVars>>
     \/ /\ focus = "kalloc"
        /\ KallocNext
        /\ UNCHANGED <<lineVars, heapVars, cardVars, screenVars, fat64Vars, textVars>>
     \/ /\ focus = "probe"
        /\ ProbeNext
        /\ UNCHANGED <<lineVars, memoryVars, etherVars, pciVars, screenVars, fat64Vars, textVars>>
     \/ /\ focus = "ethernet"
        /\ EtherNext
        /\ UNCHANGED <<lineVars, memoryVars, probeVars, pciVars, screenVars, fat64Vars, textVars>>
     \/ /\ focus = "bus"
        /\ PciNext
        /\ UNCHANGED <<lineVars, memoryVars, probeVars, etherVars, screenVars, fat64Vars, textVars>>
     \/ /\ \/ focus = "screens" /\ (ScreenCalls \/ Switching)
           \/ focus = "keyboard" /\ (OwnScreens(1) \/ Switching \/ Keyboard)
           \/ focus = "mouse" /\ (OwnScreens(1) \/ Switching \/ Mouse)
           \/ focus = "drawing" /\ (OwnScreens(2) \/ Switching \/ Drawing)
        /\ UNCHANGED <<lineVars, memoryVars, cardVars, fat64Vars, textVars>>
     \/ /\ focus = "files"
        /\ Fat64Next
        /\ UNCHANGED <<lineVars, memoryVars, cardVars, screenVars, textVars>>
     \/ /\ \/ focus = "text" /\ ConsoleNext({1}, {"a", "b", NEWLINE, RETURN})
           \/ focus = "texts" /\ ConsoleNext(PRINTERS, {"a", NEWLINE})
        /\ UNCHANGED <<lineVars, memoryVars, cardVars, screenVars, fat64Vars, formatVars>>
     \/ /\ focus = "format"
        /\ FormatNext
        /\ UNCHANGED <<lineVars, memoryVars, cardVars, screenVars, fat64Vars, consoleVars>>

Spec == Init /\ [][Next]_vars

DevicesTypeOK ==
  /\ QueueTypeOK /\ SerialTypeOK /\ HeapTypeOK /\ ProbeTypeOK
  /\ EtherTypeOK /\ PciTypeOK /\ ScreensTypeOK /\ Fat64TypeOK
  /\ ConsoleTypeOK /\ FormatTypeOK
=============================================================================
