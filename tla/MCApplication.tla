--------------------------- MODULE MCApplication ---------------------------
(* The heads looked at: each profile with the commands of its own *)
EXTENDS Application

Board(t, multi, pid, uses, temps, targets) ==
    [tool |-> t, multi |-> multi, pid |-> pid, uses |-> uses, temps |-> temps, targets |-> targets]

Plain(t, uses) == Board(t, FALSE, FALSE, uses, {1}, {0, 4})
Multi(t, uses) == Board(t, TRUE, FALSE, uses, {1}, {0, 4})

MCBoards ==
    {Multi("LASER_ENGRAVER", {"laser"}), Multi("DRILL", {"drill"}), Plain("UV_CURING", {"uv"}),
     Multi("ELECTROMAGNET", {"magnet"}), Multi("SPOT_WELDER", {"weld"}),
     Plain("AOI_INSPECTION", {"strobe"}),
     Multi("SCREWDRIVER", {"move"}), Plain("GRIPPER_NEMA", {"move"}),
     Multi("CRIMPING_ACTUATOR", {"move"}), Plain("3D_PRINTER", {"extrude"}),
     Multi("3D_PRINTER", {"layerFan"}), Plain("3D_PRINTER", {"hotendFan"}),
     Plain("HOTAIR_REWORK", {"air"}),
     Board("SOLDERING_IRON", FALSE, FALSE, {"heat", "bootloader"}, {1, 2, 4, 7}, {0, 5, 7}),
     Board("SOLDERING_IRON", TRUE, FALSE, {"heat"}, {0, 5}, {0, 4}),
     Board("SOLDERING_IRON", TRUE, TRUE, {"heat"}, {1}, {0, 4})}

StopBoards == {Plain("SCREWDRIVER", {"move"})}

SafeStopBoards == {Multi("CRIMPING_ACTUATOR", {"move"})}
=============================================================================
