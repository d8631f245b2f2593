------------------------------ MODULE PiGains ------------------------------
(***************************************************************************)
(* The gains of the PI servo, in thousandths, as pi_servo_create() and     *)
(* pi_sync_interval() derive them from the configuration.  main() gives an *)
(* interval of 1.0 once, which raised to any exponent is 1.0.              *)
(***************************************************************************)
EXTENDS Integers

HWTS_KP_SCALE == 700
HWTS_KI_SCALE == 300
SWTS_KP_SCALE == 100
SWTS_KI_SCALE == 1
MAX_KP_NORM_MAX == 1000
MAX_KI_NORM_MAX == 2000

GainParameters(kp_scale, ki_scale, kp_norm_max, ki_norm_max) ==
    [kp_scale |-> kp_scale, ki_scale |-> ki_scale,
     kp_norm_max |-> kp_norm_max, ki_norm_max |-> ki_norm_max]

\* Mutant: one constant is enough
ConstantsGivenAny(cfg) ==
    cfg.pi_proportional_const # 0 \/ cfg.pi_integral_const # 0

\* Both gains are configured as constants
ConstantsGiven(cfg) ==
    cfg.pi_proportional_const # 0 /\ cfg.pi_integral_const # 0

ScalesGiven(cfg) ==
    cfg.pi_proportional_scale # 0 /\ cfg.pi_integral_scale # 0

\* pi_servo_create(): the constants, the scales, or those of the time stamping
Configured(cfg) ==
    LET Scaled(kp_scale, ki_scale) ==
            GainParameters(kp_scale, ki_scale, cfg.pi_proportional_norm_max,
                           cfg.pi_integral_norm_max)
    IN  IF ConstantsGiven(cfg)
        THEN GainParameters(cfg.pi_proportional_const, cfg.pi_integral_const,
                            MAX_KP_NORM_MAX, MAX_KI_NORM_MAX)
        ELSE IF ScalesGiven(cfg)
        THEN Scaled(cfg.pi_proportional_scale, cfg.pi_integral_scale)
        ELSE IF cfg.software_timestamp # 0
        THEN Scaled(SWTS_KP_SCALE, SWTS_KI_SCALE)
        ELSE Scaled(HWTS_KP_SCALE, HWTS_KI_SCALE)

AtMost(gain, norm_max) == IF gain > norm_max THEN norm_max ELSE gain

\* pi_sync_interval() for an interval of 1.0
PiSyncInterval(p) ==
    [kp |-> AtMost(p.kp_scale, p.kp_norm_max),
     ki |-> AtMost(p.ki_scale, p.ki_norm_max)]
=============================================================================
