SPECIFICATION Spec

CONSTANTS
    N = 2
    Types = {"selfcap", "mutual"}
    Type <- MCType
    Sketches <- MCSleeping
    touch_in_th = 20
    touch_out_th = 10
    touched_detect_nom = 1
    untouched_detect_nom = 1
    touched_max_nom = 1
    drift_up_nom = 1
    drift_down_nom = 1
    force_recal_delta = 2
    CalibrationMax = 1
    RecalNom = 1
    CountWrap = 3
    Care = {"documented"}

INVARIANT
    LowPowerListens
